---------------------------- MODULE Spec2Model ----------------------------
(***************************************************************************)
(* A model of oscillate's playback engine: AudioQueue (queue.py), the       *)
(* GuildPlayer / AudioManager pair (core.py) and FilterChain with its      *)
(* filters (filters/).                                                     *)
(*                                                                         *)
(* Tracks are identified by their audio_url (Track.__eq__): a track is a   *)
(* number in 1..NumTracks and None is 0.  Python list indices are 0-based, *)
(* TLA+ sequences 1-based: the shuffle permutation holds 0-based indices   *)
(* as the code does, and every access adds one.                            *)
(***************************************************************************)
EXTENDS Integers, Sequences, FiniteSets, TLC

\* ------------------------------------------------------------------ bounds
max_size == 2
history_size == 1
MaxAdded == 3
MaxPlayed == 2
max_ffmpeg_procs == 1
max_queue_size == 2
MaxWaiters == 1
MaxClock == 3
MaxSkips == 2
idle_timeout == 1

\* AudioManager.adapt_bitrate's two bitrates
BitrateLow == 128000
BitrateHigh == 256000

None == 0
Tracks == {1, 2}
LoopModes == {"none", "single", "queue"}

VARIABLES
    q,          \* the AudioQueue under test
    ret,        \* what the last queue operation returned
    putLog,     \* tracks put successfully, in order  (while fifoOnly)
    getLog,     \* tracks returned by get, in order   (while fifoOnly)
    fifoOnly    \* only put/get were called so far on a default queue

qvars == <<q, ret, putLog, getLog, fifoOnly>>

VARIABLES
    world,          \* the guilds in use and the tracks their callers add
    queue,          \* GuildPlayer.queue, per guild
    current,        \* GuildPlayer.current, per guild
    playing,        \* GuildPlayer.playing, per guild
    vc,             \* guild.voice_client: "none", "idle" or "playing" a source
    transformer,    \* whether GuildPlayer._current_transformer is set
    preloaded,      \* GuildPlayer._preloaded_track (None: no preloaded source)
    lock,           \* whether GuildPlayer._lock is held
    driver,         \* the coroutine holding the lock: where it is, its permit
    waiters,        \* the number of coroutines waiting for the lock
    ft,             \* the scheduled _finish_track: "none", "ok" or "exc"
    pre,            \* the task running _preload_next: where it is, its peek
    sema,           \* the value of AudioManager._ffmpeg_sema
    streams_active, \* Metrics.streams_active
    bitrate,        \* AudioManager._bitrate
    running,        \* AudioManager.running
    cpu             \* the coroutine the event loop is running, or Nobody

pvars == <<world, queue, current, playing, vc, transformer, preloaded, lock, driver,
           waiters, ft, pre, sema, streams_active, bitrate, running, cpu>>

VARIABLES
    paused,         \* GuildPlayer._paused, per guild
    started_at,     \* GuildPlayer._started_at (None or a clock value)
    paused_at,      \* GuildPlayer._paused_at (None or a clock value)
    last_active,    \* GuildPlayer.last_active
    hooks,          \* whether a callback is registered for every event
    clock,          \* time.time() / time.monotonic()
    players,        \* the guild ids in AudioManager.players
    persisted,      \* the guilds with a row in the database's queue_states
    stopper,        \* the coroutine running stop(): where it is, who called it
    skipper,        \* the skip() calls inside their fade-out, oldest first: for
                    \* each, the track that was current when it was called
    emitted,        \* what the callbacks received during the last step
    mgr             \* the manager's _db_manager (set or not), its _autosave_task
                    \* and _idle_task, and its shutdown(): where it is, the
                    \* players it has yet to save or stop, whether a save failed

timing == <<paused, started_at, paused_at, last_active>>

manager == <<hooks, clock, players, persisted>>

callers == <<stopper, skipper>>

cvars == <<timing, manager, callers, emitted>>

VARIABLES
    pool,           \* an AudioManager of any pool size: max_ffmpeg_procs, whether
                    \* it has Metrics, Metrics.streams_active, _bitrate, and
                    \* whether adapt_bitrate was the last call
    cache,          \* AudioManager._cache_order, and the same keys from the
                    \* least to the most recently used (cached or hit)
    fx,             \* the filter objects, a FilterChain's _filters (a list of
                    \* these objects) and what the last call on them returned
    bus,            \* AudioManager._hooks, and the last call of on, off or _emit:
                    \* its arguments, the list it found, the calls it made
    fade            \* one _fade_out call: its arguments, its loop counter, the
                    \* transformer's volume, the sleeps it has finished, and the
                    \* player's playing flag

uvars == <<pool, cache, fx, bus, fade>>

\* ----------------------------------------------------------- list helpers
Last(s) == s[Len(s)]

RemoveIndex(s, i) == SubSeq(s, 1, i - 1) \o SubSeq(s, i + 1, Len(s))

InsertAt(s, i, x) == SubSeq(s, 1, i - 1) \o <<x>> \o SubSeq(s, i, Len(s))

\* list.insert(i, x) with a 0-based i >= 0: an index past the end appends
ListInsert(s, i, x) == InsertAt(s, (IF i > Len(s) THEN Len(s) ELSE i) + 1, x)

FirstIndexOf(s, x) == CHOOSE i \in 1..Len(s) : s[i] = x /\ \A j \in 1..(i - 1) : s[j] # x

\* deque.remove(x): removes the first element equal to x
DequeRemove(s, x) == RemoveIndex(s, FirstIndexOf(s, x))

\* random.shuffle(list(range(n))): any permutation of 0..n-1
Perms(n) == {s \in [1..n -> 0..(n - 1)] : \A i, j \in 1..n : i # j => s[i] # s[j]}

\* ------------------------------------------------------------- AudioQueue
NewQueue(maxSize) ==
    [items |-> <<>>, history |-> <<>>, shuffle |-> FALSE, loop_mode |-> "none",
     shuffle_indices |-> <<>>, shuffle_position |-> 0,
     total_added |-> 0, total_played |-> 0,
     max_size |-> maxSize, locked |-> FALSE]

Size(qq) == Len(qq.items)

IsEmpty(qq) == qq.items = <<>>

\* the outcome of an operation: the queue after it, its value, whether it raised
Outcome(qq, v, e) == [q |-> qq, val |-> v, err |-> e]

RegenerateShuffleIndices(qq) ==
    {[qq EXCEPT !.shuffle_indices = s, !.shuffle_position = 0] : s \in Perms(Size(qq))}

RegenerateIfShuffle(qq) == IF qq.shuffle THEN RegenerateShuffleIndices(qq) ELSE {qq}

\* a size check that is off by one
SizeCheckOffByOne(qq) == Size(qq) > qq.max_size

SizeCheckFails(qq) == Size(qq) >= qq.max_size

Put(qq, t) ==
    IF SizeCheckFails(qq)
    THEN {Outcome(qq, None, TRUE)}
    ELSE {Outcome(r, None, FALSE) :
            r \in RegenerateIfShuffle([qq EXCEPT !.items = Append(@, t),
                                                 !.total_added = @ + 1])}

\* a put_many that puts track after track and raises when the queue is full
PutManyOneByOne(qq, ts) ==
    LET room == IF qq.max_size - Size(qq) > 0 THEN qq.max_size - Size(qq) ELSE 0
        n == IF Len(ts) < room THEN Len(ts) ELSE room
    IN  {Outcome(r, None, n < Len(ts)) :
            r \in RegenerateIfShuffle([qq EXCEPT !.items = @ \o SubSeq(ts, 1, n),
                                                 !.total_added = @ + n])}

PutMany(qq, ts) ==
    IF Size(qq) + Len(ts) > qq.max_size
    THEN {Outcome(qq, None, TRUE)}
    ELSE {Outcome(r, None, FALSE) :
            r \in RegenerateIfShuffle([qq EXCEPT !.items = @ \o ts,
                                                 !.total_added = @ + Len(ts)])}

AddToHistory(h, t) ==
    IF Len(h) >= history_size THEN Tail(Append(h, t)) ELSE Append(h, t)

\* _get_shuffled after its first two ifs: qq has a permutation and a cursor in it
ShuffledPick(qq) ==
    LET idx == qq.shuffle_indices[qq.shuffle_position + 1]
    IN  IF idx >= Size(qq)
        THEN Outcome(qq, None, FALSE)
        ELSE Outcome([qq EXCEPT !.items = DequeRemove(@, qq.items[idx + 1]),
                                !.shuffle_position = @ + 1],
                     qq.items[idx + 1], FALSE)

GetShuffled(qq) ==
    LET first == IF qq.shuffle_indices = <<>> THEN RegenerateShuffleIndices(qq) ELSE {qq}
        Second(q1) ==
            IF q1.shuffle_position >= Len(q1.shuffle_indices)
            THEN IF q1.loop_mode = "queue"
                 THEN {ShuffledPick(r) : r \in RegenerateShuffleIndices(q1)}
                 ELSE {Outcome(q1, None, FALSE)}
            ELSE {ShuffledPick(q1)}
    IN  UNION {Second(q1) : q1 \in first}

\* taking the newest track instead of the oldest
PopRight(qq) ==
    Outcome([qq EXCEPT !.items = SubSeq(@, 1, Len(@) - 1)], Last(qq.items), FALSE)

PopLeft(qq) == Outcome([qq EXCEPT !.items = Tail(@)], Head(qq.items), FALSE)

\* the tail of get(): history, counter and the re-enqueue of loop mode single
AfterGet(o) ==
    IF o.val = None
    THEN o
    ELSE LET q1 == [o.q EXCEPT !.history = AddToHistory(@, o.val),
                               !.total_played = @ + 1]
         IN  Outcome(IF q1.loop_mode = "single"
                     THEN [q1 EXCEPT !.items = Append(@, o.val)]
                     ELSE q1,
                     o.val, FALSE)

Get(qq) ==
    IF IsEmpty(qq)
    THEN {Outcome(qq, None, FALSE)}
    ELSE IF qq.shuffle
         THEN {AfterGet(o) : o \in GetShuffled(qq)}
         ELSE {AfterGet(PopLeft(qq))}

\* a Python index argument: negative values count from the end
NormIndex(i, n) == IF i < 0 THEN i + n ELSE i

RemoveAt(qq, index) ==
    LET i == NormIndex(index, Size(qq))
    IN  IF ~(0 <= i /\ i < Size(qq))
        THEN {Outcome(qq, None, TRUE)}
        ELSE {Outcome(r, qq.items[i + 1], FALSE) :
                r \in RegenerateIfShuffle(
                        [qq EXCEPT !.items = DequeRemove(@, qq.items[i + 1])])}

Move(qq, src, dst) ==
    LET s == NormIndex(src, Size(qq))
        d == NormIndex(dst, Size(qq))
    IN  IF ~(0 <= s /\ s < Size(qq)) \/ ~(0 <= d /\ d <= Size(qq))
        THEN {Outcome(qq, None, TRUE)}
        ELSE {Outcome(r, None, FALSE) :
                r \in RegenerateIfShuffle(
                        [qq EXCEPT !.items =
                            ListInsert(RemoveIndex(@, s + 1), d, qq.items[s + 1])])}

Clear(qq) == [qq EXCEPT !.items = <<>>, !.shuffle_indices = <<>>, !.shuffle_position = 0]

SetShuffle(qq, enabled) ==
    IF enabled
    THEN RegenerateShuffleIndices([qq EXCEPT !.shuffle = TRUE])
    ELSE {[qq EXCEPT !.shuffle = FALSE, !.shuffle_indices = <<>>, !.shuffle_position = 0]}

SetLoopMode(qq, mode) == [qq EXCEPT !.loop_mode = mode]

AddToFront(qq, t) ==
    IF SizeCheckFails(qq)
    THEN {Outcome(qq, None, TRUE)}
    ELSE {Outcome(r, None, FALSE) :
            r \in RegenerateIfShuffle([qq EXCEPT !.items = <<t>> \o @,
                                                 !.total_added = @ + 1])}

DuplicateTrack(qq, index) ==
    LET i == NormIndex(index, Size(qq))
    IN  IF ~(0 <= i /\ i < Size(qq)) \/ SizeCheckFails(qq)
        THEN {Outcome(qq, None, TRUE)}
        ELSE {Outcome(r, None, FALSE) :
                r \in RegenerateIfShuffle(
                        [qq EXCEPT !.items = ListInsert(@, i + 1, qq.items[i + 1]),
                                   !.total_added = @ + 1])}

Peek(qq, count) ==
    IF qq.shuffle /\ qq.shuffle_indices # <<>>
    THEN LET n == IF count < Len(qq.shuffle_indices) - qq.shuffle_position
                  THEN count ELSE Len(qq.shuffle_indices) - qq.shuffle_position
             idxs == [i \in 1..(IF n < 0 THEN 0 ELSE n) |->
                        qq.shuffle_indices[qq.shuffle_position + i]]
         IN  [i \in 1..Len(SelectSeq(idxs, LAMBDA x : x < Size(qq))) |->
                qq.items[SelectSeq(idxs, LAMBDA x : x < Size(qq))[i] + 1]]
    ELSE SubSeq(qq.items, 1, IF count < Size(qq) THEN count ELSE Size(qq))

\* import_state takes the queue's lock and then awaits clear(), which takes the
\* same asyncio.Lock: the lock is not reentrant, so the call never gets past
\* line 323 and the lock stays held.  Nothing of `state` is read before that.
ImportState(qq, state) == [qq EXCEPT !.locked = TRUE]

ExportState(qq) ==
    [tracks |-> qq.items, history |-> qq.history, shuffle |-> qq.shuffle,
     loop_mode |-> qq.loop_mode, shuffle_indices |-> qq.shuffle_indices,
     shuffle_position |-> qq.shuffle_position,
     total_added |-> qq.total_added, total_played |-> qq.total_played]


\* --------------------------------------------------- AudioQueue: the calls
\* Every locked method blocks for ever once import_state holds the lock, so a
\* call is taken only while the lock is free.  The two lifetime counters are
\* unbounded in the code; a call that would raise one past MaxAdded or MaxPlayed
\* is not taken.
TrackLists == {<<>>} \cup {<<t>> : t \in Tracks} \cup {<<s, t>> : s, t \in Tracks}

IndexArgs == (0 - 1)..max_size

\* the last call, as its caller saw it: its name, its value, whether it raised;
\* only get, put and add_to_front are told apart by name
Result(op, o) == [op |-> op, val |-> o.val, err |-> o.err]

OtherResult(e) == [op |-> "other", val |-> None, err |-> e]

LeaveFifo == fifoOnly' = FALSE /\ putLog' = <<>> /\ getLog' = <<>>

QPut(t) ==
    /\ UNCHANGED <<pvars, cvars, uvars, mgr>>
    /\ ~q.locked /\ (SizeCheckFails(q) \/ q.total_added < MaxAdded)
    /\ \E o \in Put(q, t) :
        /\ q' = o.q
        /\ ret' = Result("put", o)
        /\ putLog' = IF fifoOnly /\ ~o.err THEN Append(putLog, t) ELSE putLog
    /\ UNCHANGED <<getLog, fifoOnly>>

QGet ==
    /\ UNCHANGED <<pvars, cvars, uvars, mgr>>
    /\ ~q.locked /\ (IsEmpty(q) \/ q.total_played < MaxPlayed)
    /\ \E o \in Get(q) :
        /\ q' = o.q
        /\ ret' = Result("get", o)
        /\ getLog' = IF fifoOnly /\ o.val # None THEN Append(getLog, o.val) ELSE getLog
    /\ UNCHANGED <<putLog, fifoOnly>>

QPutMany(ts) ==
    /\ UNCHANGED <<pvars, cvars, uvars, mgr>>
    /\ ~q.locked
    /\ Size(q) + Len(ts) > q.max_size \/ q.total_added + Len(ts) <= MaxAdded
    /\ \E o \in PutMany(q, ts) : q' = o.q /\ ret' = OtherResult(o.err)
    /\ LeaveFifo

QAddToFront(t) ==
    /\ UNCHANGED <<pvars, cvars, uvars, mgr>>
    /\ ~q.locked /\ (SizeCheckFails(q) \/ q.total_added < MaxAdded)
    /\ \E o \in AddToFront(q, t) : q' = o.q /\ ret' = Result("add_to_front", o)
    /\ LeaveFifo

QDuplicateTrack(i) ==
    /\ UNCHANGED <<pvars, cvars, uvars, mgr>>
    /\ ~q.locked /\ (SizeCheckFails(q) \/ q.total_added < MaxAdded)
    /\ \E o \in DuplicateTrack(q, i) : q' = o.q /\ ret' = OtherResult(o.err)
    /\ LeaveFifo

QRemoveAt(i) ==
    /\ UNCHANGED <<pvars, cvars, uvars, mgr>>
    /\ ~q.locked
    /\ \E o \in RemoveAt(q, i) : q' = o.q /\ ret' = OtherResult(o.err)
    /\ LeaveFifo

QMove(src, dst) ==
    /\ UNCHANGED <<pvars, cvars, uvars, mgr>>
    /\ ~q.locked
    /\ \E o \in Move(q, src, dst) : q' = o.q /\ ret' = OtherResult(o.err)
    /\ LeaveFifo

QClear ==
    /\ UNCHANGED <<pvars, cvars, uvars, mgr>>
    /\ ~q.locked
    /\ q' = Clear(q)
    /\ ret' = OtherResult(FALSE)
    /\ LeaveFifo

QSetShuffle(enabled) ==
    /\ UNCHANGED <<pvars, cvars, uvars, mgr>>
    /\ ~q.locked
    /\ q' \in SetShuffle(q, enabled)
    /\ ret' = OtherResult(FALSE)
    /\ LeaveFifo

\* set_loop_mode takes no lock
QSetLoopMode(mode) ==
    /\ UNCHANGED <<pvars, cvars, uvars, mgr>>
    /\ q' = SetLoopMode(q, mode)
    /\ ret' = OtherResult(FALSE)
    /\ LeaveFifo

QImportState ==
    /\ UNCHANGED <<pvars, cvars, uvars, mgr>>
    /\ ~q.locked
    /\ \E state \in {ExportState(q), ExportState(NewQueue(max_size))} :
        q' = ImportState(q, state)
    /\ ret' = OtherResult(FALSE)
    /\ LeaveFifo

QueueFresh ==
    /\ q = NewQueue(max_size)
    /\ ret = OtherResult(FALSE)
    /\ putLog = <<>>
    /\ getLog = <<>>
    /\ fifoOnly = TRUE

QueueNext ==
    \/ \E t \in Tracks : QPut(t)
    \/ QGet
    \/ \E ts \in TrackLists : QPutMany(ts)
    \/ \E t \in Tracks : QAddToFront(t)
    \/ \E i \in IndexArgs : QDuplicateTrack(i)
    \/ \E i \in IndexArgs : QRemoveAt(i)
    \/ \E i, j \in IndexArgs : QMove(i, j)
    \/ QClear
    \/ \E b \in BOOLEAN : QSetShuffle(b)
    \/ \E m \in LoopModes : QSetLoopMode(m)
    \/ QImportState


\* ================================================== GuildPlayer / AudioManager
(***************************************************************************)
(* asyncio runs one coroutine at a time and switches only at an await that *)
(* really suspends: a wait for a held asyncio.Lock, for an exhausted       *)
(* asyncio.Semaphore, or a sleep.  cpu names the coroutine that is         *)
(* running; it keeps the cpu until it suspends or returns, and a suspended *)
(* or scheduled coroutine is resumed only while cpu is Nobody.  Awaits of  *)
(* the queue's methods and of adapt_bitrate never suspend here (their      *)
(* locks are free whenever another coroutine can run), and the hook        *)
(* callbacks are plain functions, so _emit does not suspend either.        *)
(*                                                                         *)
(* Per guild, the coroutines that run add() or _finish_track() are:        *)
(*   driver   the one inside process_queue, holding GuildPlayer._lock;     *)
(*   waiters  how many are suspended in process_queue's `async with`;      *)
(*            they are alike: each will run process_queue's body;          *)
(*   ft       the _finish_track(exc) the after callback has scheduled and  *)
(*            the loop has not run yet;                                    *)
(*   pre      the task running _preload_next (a create_task made while     *)
(*            that one is still alive is not followed).                    *)
(* The queue's statistics (history, total_added, total_played) are         *)
(* unbounded and never read by the player; the players' queues are kept    *)
(* without them (NoStats).                                                 *)
(*                                                                         *)
(* Modelled: add, ensure_voice, process_queue, _play_current,              *)
(* _finish_track, _preload_next, ffmpeg_token, adapt_bitrate, and the      *)
(* controls: pause, resume, skip, stop, get_player, the idle loop, the     *)
(* autosave loop's write and the hook emissions.  A skip() or stop() is    *)
(* followed through its suspensions (the fade-out's sleeps, vc.disconnect, *)
(* clear_queue_state); at most MaxSkips skip() calls and one stop() call   *)
(* per player are in flight at a time.  The voice client of a guild is     *)
(* "none", "idle" (connected, no source), "playing", "paused" or "closing" *)
(* (inside disconnect, which has stopped the source).                      *)
(* shutdown() is followed through its saves and its stop() calls; the task *)
(* that manager._autosave_task or _idle_task refers to is "none", sleeping *)
(* in its loop, cancelled or done.  The filter chain, the track cache, the *)
(* hook table, adapt_bitrate for any pool size and the steps of one        *)
(* _fade_out call are modelled on their own, further down.                 *)
(* Not modelled: set_volume, and load_guild beyond the import_state call   *)
(* that it never gets past.                                                *)
(***************************************************************************)
Guilds == {1, 2}
Nobody == <<0, "none">>
Driver(p) == <<p, "driver">>
Preloader(p) == <<p, "preload">>

Max(a, b) == IF a > b THEN a ELSE b

NoDriver == [pc |-> "none", permit |-> FALSE]

NoPreload == [pc |-> "none", peek |-> <<>>]

NoStats(qq) == [qq EXCEPT !.history = <<>>, !.total_added = 0, !.total_played = 0]

\* one call of a hook callback: the event, the guild, and the track and error
\* flag of a track_start / track_end payload
Event(e, p, t, err) == [event |-> e, guild |-> p, track |-> t, err |-> err]

\* _emit: the registered callbacks run, in the order of the emissions
Emit(es) == emitted' = IF hooks THEN es ELSE <<>>

Silent == emitted' = <<>>

NoStopper == [pc |-> "none", by |-> "none"]

\* the transcoder sessions: the coroutines inside ffmpeg_token
Sessions ==
    {Driver(p) : p \in {g \in Guilds : driver[g].permit}}
        \cup {Preloader(p) : p \in {g \in Guilds : pre[g].pc = "token"}}

\* AudioManager.adapt_bitrate, for a manager of procs permits, with or without
\* Metrics
Adapted(procs, metrics, active) ==
    IF metrics /\ active > Max(1, procs \div 2) THEN BitrateLow ELSE BitrateHigh

\* AudioManager.adapt_bitrate of the manager of the players
AdaptBitrate(active) == Adapted(max_ffmpeg_procs, TRUE, active)

\* a semaphore that never makes its caller wait
SemaAlwaysFree(value) == TRUE

\* asyncio.Semaphore.acquire returns at once only while the value is positive
SemaFree(value) == value > 0

\* what _preload_next passes to _make_source: what peek() returned, a list
ListArg(l) == [kind |-> "list", value |-> l]

\* _make_source reads track.audio_url: an AttributeError for anything but a Track
MakeSourceRaises(arg) == arg.kind # "Track"

\* process_queue's `async with self._lock` by the running coroutine: it becomes
\* the driver if the lock is free and a waiter otherwise
EnterProcessQueue(p) ==
    IF lock[p]
    THEN /\ waiters' = [waiters EXCEPT ![p] = @ + 1]
         /\ cpu' = Nobody
         /\ UNCHANGED <<lock, driver>>
    ELSE /\ lock' = [lock EXCEPT ![p] = TRUE]
         /\ driver' = [driver EXCEPT ![p] = [pc |-> "pq_body", permit |-> FALSE]]
         /\ cpu' = Driver(p)
         /\ UNCHANGED waiters

\* AudioManager.__init__: no database manager, no task, no shutdown
NewManager ==
    [db |-> FALSE, autosave |-> "none", idle |-> "none", shutdown |-> "none",
     todo |-> {}, failed |-> FALSE]

\* AudioManager.start: nothing if running, else a database manager and the two
\* tasks, which sleep first
Started(m) ==
    IF running THEN m
    ELSE [m EXCEPT !.db = TRUE, !.autosave = "sleeping", !.idle = "sleeping"]

\* ---- add(track): queue.put, cache_track, manager.start, then process_queue
Add(p, t) ==
    /\ cpu = Nobody /\ p \in world.guilds /\ t \in world.tracks
    /\ p \in players
    /\ waiters[p] < MaxWaiters
    /\ \E o \in Put(queue[p], t) :
        IF o.err
        THEN UNCHANGED <<queue, running, mgr, lock, driver, waiters, cpu>>
        ELSE /\ queue' = [queue EXCEPT ![p] = NoStats(o.q)]
             /\ running' = TRUE
             /\ mgr' = Started(mgr)
             /\ EnterProcessQueue(p)
    /\ UNCHANGED <<world, current, playing, vc, transformer, preloaded, ft, pre,
                   sema, streams_active, bitrate>>
    /\ Silent /\ UNCHANGED <<timing, manager, callers>>
    /\ UNCHANGED <<qvars, uvars>>

\* ---- ensure_voice(channel): the guild gets a voice client
Connect(p) ==
    /\ cpu = Nobody /\ p \in world.guilds
    /\ vc[p] = "none"
    /\ vc' = [vc EXCEPT ![p] = "idle"]
    /\ UNCHANGED <<world, queue, current, playing, transformer, preloaded, lock, driver,
                   waiters, ft, pre, sema, streams_active, bitrate, running, cpu>>
    /\ Silent /\ UNCHANGED <<timing, manager, callers>>
    /\ UNCHANGED <<qvars, uvars, mgr>>

\* ---- the lock is free and wakes a coroutine suspended in process_queue
WakeWaiter(p) ==
    /\ cpu = Nobody
    /\ waiters[p] > 0 /\ ~lock[p]
    /\ waiters' = [waiters EXCEPT ![p] = @ - 1]
    /\ lock' = [lock EXCEPT ![p] = TRUE]
    /\ driver' = [driver EXCEPT ![p] = [pc |-> "pq_body", permit |-> FALSE]]
    /\ cpu' = Driver(p)
    /\ UNCHANGED <<world, queue, current, playing, vc, transformer, preloaded, ft, pre,
                   sema, streams_active, bitrate, running>>
    /\ Silent /\ UNCHANGED <<timing, manager, callers>>
    /\ UNCHANGED <<qvars, uvars, mgr>>

\* process_queue returns: the lock is released and the coroutine is over
Return(p) ==
    /\ lock' = [lock EXCEPT ![p] = FALSE]
    /\ driver' = [driver EXCEPT ![p] = NoDriver]
    /\ cpu' = Nobody

\* ffmpeg_token's acquire by the driver: it goes on if a permit is free and
\* suspends otherwise
DriverAcquire(p) ==
    IF SemaFree(sema)
    THEN /\ sema' = sema - 1
         /\ driver' = [driver EXCEPT ![p] = [pc |-> "start", permit |-> TRUE]]
         /\ cpu' = Driver(p)
    ELSE /\ driver' = [driver EXCEPT ![p] = [pc |-> "token_wait", permit |-> FALSE]]
         /\ cpu' = Nobody
         /\ UNCHANGED sema

\* ---- process_queue under the lock, and _play_current up to ffmpeg_token
ProcessQueue(p) ==
    /\ driver[p].pc = "pq_body" /\ cpu = Driver(p)
    /\ IF playing[p] \/ IsEmpty(queue[p])
       THEN /\ Return(p)
            /\ UNCHANGED <<queue, current, preloaded, bitrate, sema>>
       ELSE \E o \in Get(queue[p]) :
            /\ queue' = [queue EXCEPT ![p] = NoStats(o.q)]
            /\ IF o.val = None \/ vc[p] = "none"
               THEN /\ current' = [current EXCEPT ![p] = None]
                    /\ Return(p)
                    /\ UNCHANGED <<preloaded, bitrate, sema>>
               ELSE /\ current' = [current EXCEPT ![p] = o.val]
                    /\ preloaded' = [preloaded EXCEPT ![p] =
                                        IF @ = o.val THEN None ELSE @]
                    /\ bitrate' = AdaptBitrate(streams_active)
                    /\ DriverAcquire(p)
                    /\ UNCHANGED lock
    /\ UNCHANGED <<world, playing, vc, transformer, waiters, ft, pre, streams_active,
                   running>>
    /\ Silent /\ UNCHANGED <<timing, manager, callers>>
    /\ UNCHANGED <<qvars, uvars, mgr>>

\* ---- the semaphore wakes a driver suspended in ffmpeg_token
AcquireToken(p) ==
    /\ driver[p].pc = "token_wait" /\ cpu = Nobody
    /\ SemaFree(sema)
    /\ DriverAcquire(p)
    /\ UNCHANGED <<world, queue, current, playing, vc, transformer, preloaded, lock,
                   waiters, ft, pre, streams_active, bitrate, running>>
    /\ Silent /\ UNCHANGED <<timing, manager, callers>>
    /\ UNCHANGED <<qvars, uvars, mgr>>

\* _finish_track's assignments and its track_end emission
FinishTrackState(p, err) ==
    /\ playing' = [playing EXCEPT ![p] = FALSE]
    /\ paused' = [paused EXCEPT ![p] = FALSE]
    /\ paused_at' = [paused_at EXCEPT ![p] = None]
    /\ started_at' = [started_at EXCEPT ![p] = None]
    /\ current' = [current EXCEPT ![p] = None]
    /\ last_active' = [last_active EXCEPT ![p] = clock]
    /\ Emit(<<Event("track_end", p, current[p], err)>>)

\* ---- _play_current raised inside the try: the except and finally clauses run,
\* and finally awaits _finish_track(error), which awaits process_queue: the
\* driver, still inside ffmpeg_token and inside the process_queue that holds
\* the lock, waits for that lock
PlaybackError(p, active) ==
    /\ streams_active' = Max(0, active - 1)
    /\ transformer' = [transformer EXCEPT ![p] = FALSE]
    /\ FinishTrackState(p, TRUE)
    /\ driver' = [driver EXCEPT ![p].pc = "relock"]
    /\ cpu' = Nobody

\* ---- _play_current inside the token, up to the track_start emission; the
\* filter chain's get_combined_args or the source's constructor may raise, and
\* _make_source does raise when current is None by now
StartSession(p) ==
    /\ driver[p].pc = "start" /\ cpu = Driver(p)
    /\ \/ /\ current[p] # None
          /\ streams_active' = streams_active + 1
          /\ transformer' = [transformer EXCEPT ![p] = TRUE]
          /\ driver' = [driver EXCEPT ![p].pc = "play"]
          /\ Emit(<<Event("track_start", p, current[p], FALSE)>>)
          /\ UNCHANGED <<playing, current, cpu, timing>>
       \/ PlaybackError(p, streams_active + 1)
    /\ UNCHANGED <<world, queue, vc, preloaded, lock, waiters, ft, pre, sema, bitrate,
                   running>>
    /\ UNCHANGED <<manager, callers>>
    /\ UNCHANGED <<qvars, uvars, mgr>>

\* ---- vc.play (which may raise, and does when the voice client is not one
\* that is connected and at rest), the flags, create_task(_preload_next), then
\* the play loop sleeps
Play(p) ==
    /\ driver[p].pc = "play" /\ cpu = Driver(p)
    /\ \/ /\ vc[p] = "idle"
          /\ vc' = [vc EXCEPT ![p] = "playing"]
          /\ playing' = [playing EXCEPT ![p] = TRUE]
          /\ paused' = [paused EXCEPT ![p] = FALSE]
          /\ started_at' = [started_at EXCEPT ![p] = clock]
          /\ paused_at' = [paused_at EXCEPT ![p] = None]
          /\ last_active' = [last_active EXCEPT ![p] = clock]
          /\ pre' = [pre EXCEPT ![p] =
                        IF @.pc = "none" THEN [pc |-> "ready", peek |-> <<>>] ELSE @]
          /\ driver' = [driver EXCEPT ![p].pc = "loop"]
          /\ cpu' = Nobody
          /\ Silent
          /\ UNCHANGED <<current, transformer, streams_active>>
       \/ /\ PlaybackError(p, streams_active)
          /\ UNCHANGED <<vc, pre>>
    /\ UNCHANGED <<world, queue, preloaded, lock, waiters, ft, sema, bitrate, running>>
    /\ UNCHANGED <<manager, callers>>
    /\ UNCHANGED <<qvars, uvars, mgr>>

\* ---- the play loop finds playing false: finally, the token and the lock are
\* released and process_queue returns
LoopExit(p) ==
    /\ driver[p].pc = "loop" /\ cpu = Nobody
    /\ ~playing[p]
    /\ streams_active' = Max(0, streams_active - 1)
    /\ transformer' = [transformer EXCEPT ![p] = FALSE]
    /\ sema' = sema + 1
    /\ Return(p)
    /\ UNCHANGED <<world, queue, current, playing, vc, preloaded, waiters, ft, pre,
                   bitrate, running>>
    /\ Silent /\ UNCHANGED <<timing, manager, callers>>
    /\ UNCHANGED <<qvars, uvars, mgr>>

\* ---- the source ends (or fails): the voice thread's after callback schedules
\* _finish_track(exc) on the loop
TrackEnds(p, exc) ==
    /\ cpu = Nobody
    /\ vc[p] = "playing" /\ ft[p] = "none"
    /\ vc' = [vc EXCEPT ![p] = "idle"]
    /\ ft' = [ft EXCEPT ![p] = IF exc THEN "exc" ELSE "ok"]
    /\ UNCHANGED <<world, queue, current, playing, transformer, preloaded, lock, driver,
                   waiters, pre, sema, streams_active, bitrate, running, cpu>>
    /\ Silent /\ UNCHANGED <<timing, manager, callers>>
    /\ UNCHANGED <<qvars, uvars, mgr>>

\* _finish_track's re-enqueue: queue.put for loop mode single and queue
Requeue(qq, prev, exc) ==
    IF prev # None /\ ~exc /\ qq.loop_mode \in {"single", "queue"}
    THEN Put(qq, prev)
    ELSE {Outcome(qq, None, FALSE)}

\* ---- _finish_track(exc) as scheduled by the after callback, up to process_queue's
\* lock; a QueueError of its put ends the coroutine
FinishTrack(p) ==
    /\ ft[p] # "none" /\ cpu = Nobody
    /\ ft' = [ft EXCEPT ![p] = "none"]
    /\ FinishTrackState(p, ft[p] = "exc")
    /\ \E o \in Requeue(queue[p], current[p], ft[p] = "exc") :
        IF o.err
        THEN UNCHANGED <<queue, lock, driver, waiters, cpu>>
        ELSE /\ queue' = [queue EXCEPT ![p] = NoStats(o.q)]
             /\ EnterProcessQueue(p)
    /\ UNCHANGED <<world, vc, transformer, preloaded, pre, sema, streams_active, bitrate,
                   running>>
    /\ UNCHANGED <<manager, callers>>
    /\ UNCHANGED <<qvars, uvars, mgr>>

\* ffmpeg_token's acquire by the preload task
PreloadAcquire(p, peek) ==
    IF SemaFree(sema)
    THEN /\ sema' = sema - 1
         /\ pre' = [pre EXCEPT ![p] = [pc |-> "token", peek |-> peek]]
         /\ cpu' = Preloader(p)
    ELSE /\ pre' = [pre EXCEPT ![p] = [pc |-> "token_wait", peek |-> peek]]
         /\ cpu' = Nobody
         /\ UNCHANGED sema

\* ---- _preload_next up to its ffmpeg_token
Preload(p) ==
    /\ pre[p].pc = "ready" /\ cpu = Nobody
    /\ LET peek == Peek(queue[p], 1)
       IN  IF peek = <<>>
           THEN /\ pre' = [pre EXCEPT ![p] = NoPreload]
                /\ UNCHANGED <<bitrate, sema, cpu>>
           ELSE /\ bitrate' = AdaptBitrate(streams_active)
                /\ PreloadAcquire(p, peek)
    /\ UNCHANGED <<world, queue, current, playing, vc, transformer, preloaded, lock, driver,
                   waiters, ft, streams_active, running>>
    /\ Silent /\ UNCHANGED <<timing, manager, callers>>
    /\ UNCHANGED <<qvars, uvars, mgr>>

\* ---- the semaphore wakes a preload task suspended in ffmpeg_token
PreloadAcquireToken(p) ==
    /\ pre[p].pc = "token_wait" /\ cpu = Nobody
    /\ SemaFree(sema)
    /\ PreloadAcquire(p, pre[p].peek)
    /\ UNCHANGED <<world, queue, current, playing, vc, transformer, preloaded, lock, driver,
                   waiters, ft, streams_active, bitrate, running>>
    /\ Silent /\ UNCHANGED <<timing, manager, callers>>
    /\ UNCHANGED <<qvars, uvars, mgr>>

\* ---- _preload_next inside the token: _make_source, then the token is released
PreloadInToken(p) ==
    /\ pre[p].pc = "token" /\ cpu = Preloader(p)
    /\ preloaded' = [preloaded EXCEPT ![p] =
                        IF MakeSourceRaises(ListArg(pre[p].peek))
                        THEN None ELSE Head(pre[p].peek)]
    /\ sema' = sema + 1
    /\ pre' = [pre EXCEPT ![p] = NoPreload]
    /\ cpu' = Nobody
    /\ UNCHANGED <<world, queue, current, playing, vc, transformer, lock, driver, waiters,
                   ft, streams_active, bitrate, running>>
    /\ Silent /\ UNCHANGED <<timing, manager, callers>>
    /\ UNCHANGED <<qvars, uvars, mgr>>

\* ------------------------------------------------------ the player's controls
\* time.time() and time.monotonic() go on together; no coroutine is running
Tick ==
    /\ cpu = Nobody
    /\ clock < MaxClock
    /\ clock' = clock + 1
    /\ Silent
    /\ UNCHANGED <<hooks, players, persisted, timing, callers>>
    /\ UNCHANGED <<pvars, qvars, uvars, mgr>>

\* a pause() that goes through whatever the voice client is doing
PauseAlwaysApplies(v, pz) == TRUE

\* pause()'s condition: vc and vc.is_playing() and not self._paused; a voice
\* client is_playing while it has a source that is not paused
PauseApplies(v, pz) == v = "playing" /\ ~pz

\* ---- pause()
Pause(p) ==
    /\ cpu = Nobody /\ p \in players
    /\ IF PauseApplies(vc[p], paused[p])
       THEN /\ vc' = [vc EXCEPT ![p] = IF @ = "playing" THEN "paused" ELSE @]
            /\ paused' = [paused EXCEPT ![p] = TRUE]
            /\ paused_at' = [paused_at EXCEPT ![p] = clock]
            /\ Emit(<<Event("pause", p, None, FALSE)>>)
       ELSE /\ Silent
            /\ UNCHANGED <<vc, paused, paused_at>>
    /\ UNCHANGED <<started_at, last_active, manager, callers>>
    /\ UNCHANGED <<world, queue, current, playing, transformer, preloaded, lock, driver,
                   waiters, ft, pre, sema, streams_active, bitrate, running, cpu>>
    /\ UNCHANGED <<qvars, uvars, mgr>>

\* resume()'s condition: vc and self._paused
ResumeApplies(v, pz) == v # "none" /\ pz

\* a resume that leaves _started_at where it was
UnshiftedStart(started, pausedAt, now) == started

\* resume()'s new _started_at: moved on by the time spent paused, when both
\* anchors are set
ShiftedStart(started, pausedAt, now) ==
    IF pausedAt # None /\ started # None THEN started + (now - pausedAt) ELSE started

\* ---- resume()
Resume(p) ==
    /\ cpu = Nobody /\ p \in players
    /\ IF ResumeApplies(vc[p], paused[p])
       THEN /\ vc' = [vc EXCEPT ![p] = IF @ = "paused" THEN "playing" ELSE @]
            /\ started_at' = [started_at EXCEPT ![p] =
                                ShiftedStart(@, paused_at[p], clock)]
            /\ paused' = [paused EXCEPT ![p] = FALSE]
            /\ paused_at' = [paused_at EXCEPT ![p] = None]
            /\ Emit(<<Event("resume", p, None, FALSE)>>)
       ELSE /\ Silent
            /\ UNCHANGED <<vc, paused, paused_at, started_at>>
    /\ UNCHANGED <<last_active, manager, callers>>
    /\ UNCHANGED <<world, queue, current, playing, transformer, preloaded, lock, driver,
                   waiters, ft, pre, sema, streams_active, bitrate, running, cpu>>
    /\ UNCHANGED <<qvars, uvars, mgr>>

\* vc.stop() and the stop inside vc.disconnect(): a voice client that has a
\* source drops it, and the after callback schedules _finish_track(None)
SourceStopped(p) ==
    IF vc[p] \in {"playing", "paused"} /\ ft[p] = "none" THEN "ok" ELSE ft[p]

\* skip() after its fade-out: the skip emission, then vc.stop()
SkipEnd(p) ==
    /\ Emit(<<Event("skip", p, None, FALSE)>>)
    /\ vc' = [vc EXCEPT ![p] = IF @ \in {"playing", "paused"} THEN "idle" ELSE @]
    /\ ft' = [ft EXCEPT ![p] = SourceStopped(p)]

\* ---- skip(): nothing unless the voice client is playing; _fade_out sleeps
\* between its steps while the player is playing
SkipCall(p) ==
    /\ cpu = Nobody /\ p \in players
    /\ Len(skipper[p]) < MaxSkips
    /\ IF vc[p] = "playing"
       THEN IF transformer[p] /\ playing[p]
            THEN /\ skipper' = [skipper EXCEPT ![p] = Append(@, current[p])]
                 /\ Silent
                 /\ UNCHANGED <<vc, ft>>
            ELSE /\ SkipEnd(p)
                 /\ UNCHANGED skipper
       ELSE /\ Silent
            /\ UNCHANGED <<vc, ft, skipper>>
    /\ UNCHANGED <<timing, manager, stopper>>
    /\ UNCHANGED <<world, queue, current, playing, transformer, preloaded, lock, driver,
                   waiters, pre, sema, streams_active, bitrate, running, cpu>>
    /\ UNCHANGED <<qvars, uvars, mgr>>

\* ---- skip()'s fade-out is over (or the player stopped playing meanwhile)
SkipFinish(p) ==
    /\ cpu = Nobody
    /\ skipper[p] # <<>>
    /\ skipper' = [skipper EXCEPT ![p] = Tail(@)]
    /\ SkipEnd(p)
    /\ UNCHANGED <<timing, manager, stopper>>
    /\ UNCHANGED <<world, queue, current, playing, transformer, preloaded, lock, driver,
                   waiters, pre, sema, streams_active, bitrate, running, cpu>>
    /\ UNCHANGED <<qvars, uvars, mgr>>

\* stop() suspends in its fade-out
StopToFade(p, by, evs) ==
    /\ stopper' = [stopper EXCEPT ![p] = [pc |-> "fade", by |-> by]]
    /\ Emit(evs)
    /\ UNCHANGED <<vc, ft, current, queue, playing, paused, paused_at, started_at,
                   persisted, players>>

\* stop() suspends in vc.disconnect(), which has stopped the source; the guild
\* keeps the voice client until the disconnect is over
StopToDisconnect(p, by, evs) ==
    /\ stopper' = [stopper EXCEPT ![p] = [pc |-> "disconnect", by |-> by]]
    /\ vc' = [vc EXCEPT ![p] = "closing"]
    /\ ft' = [ft EXCEPT ![p] = SourceStopped(p)]
    /\ Emit(evs)
    /\ UNCHANGED <<current, queue, playing, paused, paused_at, started_at, persisted,
                   players>>

\* stop()'s assignments and its queue.clear(); the voice client is gone
StopAssign(p) ==
    /\ vc' = [vc EXCEPT ![p] = "none"]
    /\ current' = [current EXCEPT ![p] = None]
    /\ queue' = [queue EXCEPT ![p] = Clear(@)]
    /\ playing' = [playing EXCEPT ![p] = FALSE]
    /\ paused' = [paused EXCEPT ![p] = FALSE]
    /\ paused_at' = [paused_at EXCEPT ![p] = None]
    /\ started_at' = [started_at EXCEPT ![p] = None]
    /\ UNCHANGED ft

\* stop()'s end: the stop emission and remove_player
StopEnd(p, evs) ==
    /\ Emit(evs \o <<Event("stop", p, None, FALSE)>>)
    /\ players' = players \ {p}
    /\ stopper' = [stopper EXCEPT ![p] = NoStopper]

\* stop() from its assignments on: with a database manager (there is one once
\* the manager has started) it suspends in clear_queue_state, whose DELETE is
\* with the database by then
StopBody(p, by, evs) ==
    /\ StopAssign(p)
    /\ IF mgr.db
       THEN /\ persisted' = persisted \ {p}
            /\ stopper' = [stopper EXCEPT ![p] = [pc |-> "db", by |-> by]]
            /\ Emit(evs)
            /\ UNCHANGED players
       ELSE /\ StopEnd(p, evs)
            /\ UNCHANGED persisted

\* stop() from its first line to its first suspension; evs: what the caller
\* has emitted just before
StopEnter(p, by, evs) ==
    IF vc[p] # "none"
    THEN IF transformer[p] /\ playing[p]
         THEN StopToFade(p, by, evs)
         ELSE StopToDisconnect(p, by, evs)
    ELSE StopBody(p, by, evs)

\* ---- stop() called on the player
StopCall(p) ==
    /\ cpu = Nobody /\ p \in players
    /\ stopper[p].pc = "none"
    /\ StopEnter(p, "user", <<>>)
    /\ UNCHANGED <<last_active, hooks, clock, skipper>>
    /\ UNCHANGED <<world, transformer, preloaded, lock, driver, waiters, pre, sema,
                   streams_active, bitrate, running, cpu>>
    /\ UNCHANGED <<qvars, uvars, mgr>>

\* ---- stop()'s fade-out is over
StopFade(p) ==
    /\ cpu = Nobody
    /\ stopper[p].pc = "fade"
    /\ StopToDisconnect(p, stopper[p].by, <<>>)
    /\ UNCHANGED <<last_active, hooks, clock, skipper>>
    /\ UNCHANGED <<world, transformer, preloaded, lock, driver, waiters, pre, sema,
                   streams_active, bitrate, running, cpu>>
    /\ UNCHANGED <<qvars, uvars, mgr>>

\* ---- vc.disconnect() is over
StopDisconnected(p) ==
    /\ cpu = Nobody
    /\ stopper[p].pc = "disconnect"
    /\ StopBody(p, stopper[p].by, <<>>)
    /\ UNCHANGED <<last_active, hooks, clock, skipper>>
    /\ UNCHANGED <<world, transformer, preloaded, lock, driver, waiters, pre, sema,
                   streams_active, bitrate, running, cpu>>
    /\ UNCHANGED <<qvars, uvars, mgr>>

\* ---- clear_queue_state is over
StopFinish(p) ==
    /\ cpu = Nobody
    /\ stopper[p].pc = "db"
    /\ StopEnd(p, <<>>)
    /\ UNCHANGED <<vc, ft, current, queue, playing, paused, paused_at, started_at,
                   persisted>>
    /\ UNCHANGED <<last_active, hooks, clock, skipper>>
    /\ UNCHANGED <<world, transformer, preloaded, lock, driver, waiters, pre, sema,
                   streams_active, bitrate, running, cpu>>
    /\ UNCHANGED <<qvars, uvars, mgr>>

\* a player that never counts as idle
NeverIdle(p, now, timeout) == FALSE

\* is_idle(now, timeout) of guild p's player
IsIdle(p, now, timeout) ==
    IF vc[p] = "none"
    THEN FALSE
    ELSE IF playing[p] \/ paused[p] \/ ~IsEmpty(queue[p])
         THEN FALSE
         ELSE now - last_active[p] > timeout

\* ---- _idle_loop finds guild p's player idle: the idle emission, then stop();
\* the loop awaits that stop() before it looks at another player
IdleCheck(p) ==
    /\ cpu = Nobody /\ mgr.idle = "sleeping" /\ p \in players
    /\ \A g \in Guilds : stopper[g].by # "idle"
    /\ stopper[p].pc = "none"
    /\ IsIdle(p, clock, idle_timeout)
    /\ StopEnter(p, "idle", <<Event("idle", p, None, FALSE)>>)
    /\ UNCHANGED <<last_active, hooks, clock, skipper>>
    /\ UNCHANGED <<world, transformer, preloaded, lock, driver, waiters, pre, sema,
                   streams_active, bitrate, running, cpu>>
    /\ UNCHANGED <<qvars, uvars, mgr>>

\* ---- _autosave_loop's save_guild for guild p: the row is written
Autosave(p) ==
    /\ cpu = Nobody /\ mgr.autosave = "sleeping" /\ p \in players
    /\ persisted' = persisted \cup {p}
    /\ Silent
    /\ UNCHANGED <<hooks, clock, players, timing, callers>>
    /\ UNCHANGED <<pvars, qvars, uvars, mgr>>

\* no coroutine of guild p's player is alive
Quiescent(p) ==
    /\ driver[p] = NoDriver /\ waiters[p] = 0 /\ ft[p] = "none"
    /\ pre[p] = NoPreload /\ skipper[p] = <<>> /\ stopper[p] = NoStopper

\* ---- get_player for a guild that has no player: a new GuildPlayer (followed
\* here once the coroutines of the player before it are over)
GetPlayer(p) ==
    /\ cpu = Nobody /\ p \in world.guilds /\ p \notin players
    /\ Quiescent(p)
    /\ players' = players \cup {p}
    /\ queue' = [queue EXCEPT ![p] = NewQueue(max_queue_size)]
    /\ current' = [current EXCEPT ![p] = None]
    /\ playing' = [playing EXCEPT ![p] = FALSE]
    /\ transformer' = [transformer EXCEPT ![p] = FALSE]
    /\ preloaded' = [preloaded EXCEPT ![p] = None]
    /\ lock' = [lock EXCEPT ![p] = FALSE]
    /\ paused' = [paused EXCEPT ![p] = FALSE]
    /\ started_at' = [started_at EXCEPT ![p] = None]
    /\ paused_at' = [paused_at EXCEPT ![p] = None]
    /\ last_active' = [last_active EXCEPT ![p] = clock]
    /\ Silent
    /\ UNCHANGED <<hooks, clock, persisted, callers>>
    /\ UNCHANGED <<world, vc, driver, waiters, ft, pre, sema, streams_active, bitrate,
                   running, cpu>>
    /\ UNCHANGED <<qvars, uvars, mgr>>

\* time_elapsed() of guild p's player
TimeElapsed(p) ==
    IF ~playing[p] \/ started_at[p] = None
    THEN 0
    ELSE IF paused[p] /\ paused_at[p] # None
         THEN Max(0, paused_at[p] - started_at[p])
         ELSE Max(0, clock - started_at[p])

\* ---- a save_guild of the autosave loop fails in the database: the error is
\* logged and emitted
AutosaveFails(p) ==
    /\ cpu = Nobody /\ mgr.autosave = "sleeping" /\ p \in players
    /\ Emit(<<Event("error", p, None, TRUE)>>)
    /\ UNCHANGED <<hooks, clock, players, persisted, timing, callers>>
    /\ UNCHANGED <<pvars, qvars, uvars, mgr>>

\* ---- a background loop wakes up from its sleep after running was set to
\* False: it leaves its while loop and its task is done
LoopEnds(task) ==
    /\ cpu = Nobody /\ ~running
    /\ mgr[task] = "sleeping"
    /\ mgr' = [mgr EXCEPT ![task] = "done"]
    /\ Silent /\ UNCHANGED <<timing, manager, callers>>
    /\ UNCHANGED <<pvars, qvars, uvars>>

\* shutdown() after its save_all: it cancels the first task that is not done
\* and awaits it, and the CancelledError of that task, which suppress(Exception)
\* lets through, ends shutdown(); with both tasks done or never created it goes
\* on to the players
AfterSaveAll(m) ==
    IF m.autosave = "sleeping"
    THEN [m EXCEPT !.autosave = "cancelled", !.shutdown = "raised", !.todo = {}]
    ELSE IF m.idle = "sleeping"
         THEN [m EXCEPT !.idle = "cancelled", !.shutdown = "raised", !.todo = {}]
         ELSE [m EXCEPT !.shutdown = "stop", !.todo = players]

\* ---- shutdown(): running = False, then save_all, which suspends in the first
\* player's save
ShutdownCall ==
    /\ cpu = Nobody
    /\ mgr.shutdown \in {"none", "done", "raised"}
    /\ running' = FALSE
    /\ mgr' = IF mgr.db /\ players # {}
              THEN [mgr EXCEPT !.shutdown = "save", !.todo = players, !.failed = FALSE]
              ELSE AfterSaveAll([mgr EXCEPT !.failed = FALSE])
    /\ Silent /\ UNCHANGED <<timing, manager, callers>>
    /\ UNCHANGED <<world, queue, current, playing, vc, transformer, preloaded, lock, driver,
                   waiters, ft, pre, sema, streams_active, bitrate, cpu>>
    /\ UNCHANGED <<qvars, uvars>>

\* ---- shutdown()'s save_guild of player p is over: the row is written, or the
\* database has failed and the error is logged and emitted; after the last
\* player, shutdown() goes on
ShutdownSave(p, fails) ==
    /\ cpu = Nobody
    /\ mgr.shutdown = "save" /\ p \in mgr.todo
    /\ IF p \notin players
       THEN Silent /\ UNCHANGED persisted
       ELSE IF fails
            THEN Emit(<<Event("error", p, None, TRUE)>>) /\ UNCHANGED persisted
            ELSE Silent /\ persisted' = persisted \cup {p}
    /\ LET m == [mgr EXCEPT !.todo = @ \ {p},
                            !.failed = @ \/ (fails /\ p \in players)]
       IN  mgr' = IF m.todo = {} THEN AfterSaveAll(m) ELSE m
    /\ UNCHANGED <<hooks, clock, players, timing, callers>>
    /\ UNCHANGED <<pvars, qvars, uvars>>

\* ---- shutdown() calls stop() on the next player of its list and awaits it
ShutdownStop(p) ==
    /\ cpu = Nobody
    /\ mgr.shutdown = "stop" /\ p \in mgr.todo
    /\ \A g \in Guilds : stopper[g].pc = "none" \/ stopper[g].by # "shutdown"
    /\ stopper[p].pc = "none"
    /\ StopEnter(p, "shutdown", <<>>)
    /\ mgr' = [mgr EXCEPT !.todo = @ \ {p}]
    /\ UNCHANGED <<last_active, hooks, clock, skipper>>
    /\ UNCHANGED <<world, transformer, preloaded, lock, driver, waiters, pre, sema,
                   streams_active, bitrate, running, cpu>>
    /\ UNCHANGED <<qvars, uvars>>

\* ---- shutdown()'s last stop() is over: players.clear()
ShutdownEnd ==
    /\ cpu = Nobody
    /\ mgr.shutdown = "stop" /\ mgr.todo = {}
    /\ \A g \in Guilds : stopper[g].pc = "none" \/ stopper[g].by # "shutdown"
    /\ players' = {}
    /\ mgr' = [mgr EXCEPT !.shutdown = "done"]
    /\ Silent /\ UNCHANGED <<hooks, clock, persisted, timing, callers>>
    /\ UNCHANGED <<pvars, qvars, uvars>>

\* ------------------------------------------------------------------ units
\* The parts of the manager and of a player that are also checked on their own,
\* each under a specification of its own; in every other specification they stay
\* as constructed.

\* AudioManager.__init__: no stream yet, the high bitrate
NewPool(procs, metrics) ==
    [max_ffmpeg_procs |-> procs, metrics |-> metrics, streams_active |-> 0,
     bitrate |-> BitrateHigh, adapted |-> FALSE]

\* AudioManager.__init__: nothing cached
NewCache == [order |-> <<>>, used |-> <<>>]

\* the filter objects
Filters == {1, 2, 3}

\* Equalizer({1000: 5.0}), Nightcore() and Audio8D() as constructed; the
\* parameters are in hundredths
NewFilter(kind) ==
    [kind |-> kind, enabled |-> TRUE,
     name |-> CASE kind = "Equalizer" -> "equalizer"
                [] kind = "Nightcore" -> "nightcore"
                [] kind = "Audio8D" -> "audio_8d",
     priority |-> CASE kind = "Equalizer" -> 10
                    [] kind = "Nightcore" -> 20
                    [] kind = "Audio8D" -> 30,
     params |-> CASE kind = "Equalizer" -> [gain |-> 500]
                  [] kind = "Nightcore" -> [pitch |-> 120, tempo |-> 115]
                  [] kind = "Audio8D" -> [strength |-> 80, speed |-> 200, radius |-> 70,
                                          reverb_amount |-> 30]]

\* a FilterChain as constructed, and filter objects of the given kinds
NewFx(kinds) ==
    [heap |-> [f \in Filters |-> NewFilter(kinds[f])],
     filters |-> <<>>,
     ret |-> [op |-> "none", arg |-> None, val |-> <<>>, err |-> FALSE]]

\* two of the eight events of AudioManager._hooks
Events == {"track_start", "error"}

NoCall == [op |-> "none", event |-> "", found |-> <<>>, calls |-> <<>>, raised |-> FALSE]

\* AudioManager.__init__: no callback is registered
NewBus == [hooks |-> [e \in Events |-> <<>>], last |-> NoCall]

\* no _fade_out call has been made
NoFade ==
    [pc |-> "none", duration |-> 0, original |-> 0, steps |-> 0, i |-> 0,
     volume |-> 0, sleeps |-> 0, playing |-> FALSE]

UnitsInit ==
    /\ pool = NewPool(max_ffmpeg_procs, TRUE)
    /\ cache = NewCache
    /\ fx = NewFx(<<"Equalizer", "Nightcore", "Audio8D">>)
    /\ bus = NewBus
    /\ fade = NoFade

\* ------------------------------------------------------------ specifications
vars == <<qvars, pvars, cvars, uvars, mgr>>

\* the players as constructed, for a world of guilds and tracks; the first
\* guild's queue has had its loop mode and shuffle flag set while empty
PlayersInit(gs, ts, modes, shuffles) ==
    /\ world = [guilds |-> gs, tracks |-> ts]
    /\ queue \in [Guilds -> {[NewQueue(max_queue_size) EXCEPT !.loop_mode = m, !.shuffle = s] :
                                m \in modes, s \in shuffles}]
    /\ \A p \in Guilds \ {1} : queue[p] = NewQueue(max_queue_size)
    /\ current = [p \in Guilds |-> None]
    /\ playing = [p \in Guilds |-> FALSE]
    /\ vc = [p \in Guilds |-> "none"]
    /\ transformer = [p \in Guilds |-> FALSE]
    /\ preloaded = [p \in Guilds |-> None]
    /\ lock = [p \in Guilds |-> FALSE]
    /\ driver = [p \in Guilds |-> NoDriver]
    /\ waiters = [p \in Guilds |-> 0]
    /\ ft = [p \in Guilds |-> "none"]
    /\ pre = [p \in Guilds |-> NoPreload]
    /\ sema = max_ffmpeg_procs
    /\ streams_active = 0
    /\ bitrate = BitrateHigh
    /\ running = FALSE
    /\ cpu = Nobody

\* the manager as constructed with its players; hk: whether callbacks are
\* registered
ControlInit(hk) ==
    /\ paused = [p \in Guilds |-> FALSE]
    /\ started_at = [p \in Guilds |-> None]
    /\ paused_at = [p \in Guilds |-> None]
    /\ clock = 1
    /\ last_active = [p \in Guilds |-> 1]
    /\ hooks = hk
    /\ players = world.guilds
    /\ persisted = {}
    /\ stopper = [p \in Guilds |-> NoStopper]
    /\ skipper = [p \in Guilds |-> <<>>]
    /\ emitted = <<>>
    /\ mgr = NewManager

\* the queue on its own: no player is in use
QueueInit == QueueFresh /\ PlayersInit({}, {}, {"none"}, {FALSE}) /\ ControlInit(FALSE) /\ UnitsInit

QueueSpec == QueueInit /\ [][QueueNext]_vars

\* the steps of the coroutines of guild p
TaskStep(p) ==
    \/ WakeWaiter(p)
    \/ ProcessQueue(p)
    \/ AcquireToken(p)
    \/ StartSession(p)
    \/ Play(p)
    \/ LoopExit(p)
    \/ FinishTrack(p)

PreloadStep(p) == Preload(p) \/ PreloadAcquireToken(p) \/ PreloadInToken(p)

Next ==
    \/ \E p \in Guilds, t \in Tracks : Add(p, t)
    \/ \E p \in Guilds : Connect(p)
    \/ \E p \in Guilds : WakeWaiter(p)
    \/ \E p \in Guilds : ProcessQueue(p)
    \/ \E p \in Guilds : AcquireToken(p)
    \/ \E p \in Guilds : StartSession(p)
    \/ \E p \in Guilds : Play(p)
    \/ \E p \in Guilds : LoopExit(p)
    \/ \E p \in Guilds, exc \in BOOLEAN : TrackEnds(p, exc)
    \/ \E p \in Guilds : FinishTrack(p)
    \/ \E p \in Guilds : Preload(p)
    \/ \E p \in Guilds : PreloadAcquireToken(p)
    \/ \E p \in Guilds : PreloadInToken(p)

\* one more guild than permits, all adding the same track
Init == QueueFresh /\ PlayersInit(Guilds, {1}, LoopModes, BOOLEAN) /\ ControlInit(FALSE) /\ UnitsInit

Spec == Init /\ [][Next]_vars

\* the event loop runs every coroutine that is ready, the semaphore and the lock
\* wake their waiters, and a source that is playing comes to its end
Fairness ==
    /\ \A p \in Guilds : SF_vars(TaskStep(p))
    /\ \A p \in Guilds : SF_vars(PreloadStep(p))
    /\ \A p \in Guilds : SF_vars(\E exc \in BOOLEAN : TrackEnds(p, exc))

FairSpec == Spec /\ Fairness

\* the guilds whose players the callers control; the other guild's player only
\* plays what is added
Controlled == {1}

\* the players with callbacks registered for every event, loop mode none
HookInit == QueueFresh /\ PlayersInit(Guilds, {1}, {"none"}, {FALSE}) /\ ControlInit(TRUE) /\ UnitsInit

\* one guild with callbacks registered for every event, loop mode none
SoloInit == QueueFresh /\ PlayersInit({1}, {1}, {"none"}, {FALSE}) /\ ControlInit(TRUE) /\ UnitsInit

\* one guild's player: its caller adds, pauses and resumes, and time goes on;
\* with one player no coroutine finds the permits exhausted
PauseNext ==
    \/ \E p \in Guilds, t \in Tracks : Add(p, t)
    \/ \E p \in Guilds : Connect(p)
    \/ \E p \in Guilds : WakeWaiter(p)
    \/ \E p \in Guilds : ProcessQueue(p)
    \/ \E p \in Guilds : StartSession(p)
    \/ \E p \in Guilds : Play(p)
    \/ \E p \in Guilds : LoopExit(p)
    \/ \E p \in Guilds, exc \in BOOLEAN : TrackEnds(p, exc)
    \/ \E p \in Guilds : FinishTrack(p)
    \/ \E p \in Guilds : Preload(p)
    \/ \E p \in Guilds : PreloadInToken(p)
    \/ Tick
    \/ \E p \in Guilds : Pause(p)
    \/ \E p \in Guilds : Resume(p)

PauseSpec == SoloInit /\ [][PauseNext]_vars

\* one guild's player: its caller adds, time goes on and the idle loop runs
\* (its stop() has no fade-out: the player it stops is not playing)
ReapNext ==
    \/ \E p \in Guilds, t \in Tracks : Add(p, t)
    \/ \E p \in Guilds : Connect(p)
    \/ \E p \in Guilds : WakeWaiter(p)
    \/ \E p \in Guilds : ProcessQueue(p)
    \/ \E p \in Guilds : StartSession(p)
    \/ \E p \in Guilds : Play(p)
    \/ \E p \in Guilds : LoopExit(p)
    \/ \E p \in Guilds, exc \in BOOLEAN : TrackEnds(p, exc)
    \/ \E p \in Guilds : FinishTrack(p)
    \/ \E p \in Guilds : Preload(p)
    \/ \E p \in Guilds : PreloadInToken(p)
    \/ Tick
    \/ \E p \in Guilds : IdleCheck(p)
    \/ \E p \in Guilds : StopDisconnected(p)
    \/ \E p \in Guilds : StopFinish(p)

ReapSpec == SoloInit /\ [][ReapNext]_vars

\* the callers skip
SkipNext ==
    \/ Next
    \/ \E p \in Guilds : SkipCall(p)
    \/ \E p \in Guilds : SkipFinish(p)

SkipSpec == HookInit /\ [][SkipNext]_vars

\* the callers stop players and get new ones, and the autosave loop runs
StopNext ==
    \/ Next
    \/ \E p \in Controlled : StopCall(p)
    \/ \E p \in Controlled : StopFade(p)
    \/ \E p \in Controlled : StopDisconnected(p)
    \/ \E p \in Controlled : StopFinish(p)
    \/ \E p \in Controlled : Autosave(p)
    \/ \E p \in Controlled : GetPlayer(p)

StopSpec == HookInit /\ [][StopNext]_vars

\* time goes on and the idle loop runs; the player it stops is not playing,
\* so its stop() has no fade-out
IdleNext ==
    \/ Next
    \/ Tick
    \/ \E p \in Controlled : IdleCheck(p)
    \/ \E p \in Controlled : StopDisconnected(p)
    \/ \E p \in Controlled : StopFinish(p)

IdleSpec == HookInit /\ [][IdleNext]_vars

\* the idle loop wakes up again and again while the manager runs, and a stop()
\* that is suspended is resumed
IdleFairness ==
    \A p \in Guilds :
        /\ SF_vars(IdleCheck(p))
        /\ SF_vars(StopDisconnected(p) \/ StopFinish(p))

FairReapSpec == ReapSpec /\ Fairness /\ IdleFairness

\* ----------------------------------------------------------- player: claims
\* C1: at most max_ffmpeg_procs transcoder sessions (playback or preload attempts
\* inside ffmpeg_token) are active at any time, and the semaphore counts exactly
\* the permits that are left, so a further attempt starts only after a release
C1_PermitPool ==
    /\ Cardinality(Sessions) <= max_ffmpeg_procs
    /\ sema = max_ffmpeg_procs - Cardinality(Sessions)

\* every permit is taken by a playing session while another player's attempt
\* waits in ffmpeg_token
C1_Witness ==
    /\ sema = 0
    /\ \E p, g \in Guilds :
        /\ p # g
        /\ driver[p].pc = "loop" /\ driver[p].permit /\ playing[p]
        /\ driver[g].pc = "token_wait"

\* C2: a permit taken for a playback attempt is eventually released, whatever
\* way the attempt ends
C2_PermitReleased == \A p \in Guilds : driver[p].permit ~> ~driver[p].permit

\* C3: a playback error never leaves the player halted: the process_queue call
\* that _finish_track makes for the failed track is never stuck waiting for the
\* player lock that its own caller holds
C3_NeverHalted == \A p \in Guilds : driver[p].pc # "relock"

\* a track_start was emitted: _play_current is about to call vc.play
TrackStarted(p) == driver[p].pc = "play"

\* C4: when a track has ended naturally on a connected player whose queue is not
\* empty, the next track eventually starts, unless some playback failed
C4_NextTrackStarts ==
    \A p \in Guilds :
        (ft[p] = "ok" /\ ~IsEmpty(queue[p]) /\ vc[p] # "none")
            ~> (TrackStarted(p) \/ \E g \in Guilds : driver[g].pc = "relock")

\* C5: whenever no coroutine is in the middle of a step, current is set exactly
\* while the playing flag is set
C5_CurrentIffPlaying ==
    cpu = Nobody => \A p \in Guilds : (current[p] # None) <=> playing[p]

\* C16 (as claimed): a process_queue call made while the player is playing
\* returns at once: no coroutine is left waiting in it while a track plays
C16_NoOpReturns == \A p \in Guilds : playing[p] => waiters[p] = 0

\* the events of the given names that the callbacks received for guild p
\* during the last step
Emitted(p, names) ==
    SelectSeq(emitted, LAMBDA ev : ev.guild = p /\ ev.event \in names)

\* the step in which guild p's _play_current raises inside its try
PlaybackFails(p) == driver[p].pc \in {"start", "play"} /\ driver'[p].pc = "relock"

\* C20 (as claimed): an error raised inside _play_current is reported twice, by
\* an error emission for the guild and by a track_end emission that carries
\* the failed track and the error
C20_ErrorReportedTwice ==
    [][\A p \in Guilds :
        PlaybackFails(p) =>
            /\ Len(Emitted(p, {"error"}))' = 1
            /\ Emitted(p, {"track_end"})' = <<Event("track_end", p, current[p], TRUE)>>]_vars

\* a call that emits nothing and changes nothing
NoEffect == emitted' = <<>> /\ UNCHANGED <<pvars, qvars, uvars, mgr, timing, manager, callers>>

C19_ElapsedExcludesPause ==
    [][\A p \in Guilds :
        /\ paused[p] /\ playing[p] /\ paused'[p] => TimeElapsed(p)' = TimeElapsed(p)
        /\ Resume(p) /\ paused[p] /\ playing[p] => TimeElapsed(p)' = TimeElapsed(p)
        /\ Tick /\ playing[p] /\ ~paused[p] => TimeElapsed(p)' = TimeElapsed(p) + 1]_vars

\* a track that played for a while and was paused for a while has just been
\* resumed: less time has elapsed than has passed since it started
C19_Witness ==
    /\ emitted = <<Event("resume", 1, None, FALSE)>>
    /\ playing[1] /\ ~paused[1] /\ vc[1] = "playing"
    /\ clock = 3 /\ started_at[1] = 2
    /\ TimeElapsed(1) = 1

\* the step in which a skip() of guild p that went through a fade-out emits
\* skip and stops the voice client's source
SkipEmits(p) ==
    /\ skipper[p] # <<>> /\ skipper'[p] = Tail(skipper[p])
    /\ Emitted(p, {"skip"})' # <<>>

\* C12 (as claimed): a skip() called while track T plays emits one skip that is
\* followed by one track_end for T and ends no other track: when it emits
\* skip, T is still the player's current track and still counts as playing
\* (no track_end for it has been emitted), and a _finish_track for it is
\* scheduled by then
C12_SkipEndsItsTrack ==
    [][\A p \in Guilds :
        SkipEmits(p) =>
            /\ Len(Emitted(p, {"skip"}))' = 1
            /\ playing[p] /\ current[p] = Head(skipper[p])
            /\ ft'[p] # "none"]_vars

\* the step in which a stop() of guild p's player returns
StopReturns(p) == p \in players /\ p \notin players'

\* the state of a GuildPlayer as constructed
FreshPlayer(p) ==
    /\ queue[p] = NewQueue(max_queue_size)
    /\ current[p] = None
    /\ ~playing[p] /\ ~paused[p]
    /\ started_at[p] = None /\ paused_at[p] = None
    /\ ~lock[p]

\* C13 (as claimed): when stop() returns, current is None, the queue is empty,
\* the player is neither playing nor paused, started_at and paused_at are
\* None, the guild has no persisted state, exactly one stop was emitted and
\* the guild is not in the manager's table; the next get_player makes a fresh
\* player
C13_StopLeavesNothing ==
    [][\A p \in Guilds :
        /\ StopReturns(p) =>
            /\ current'[p] = None
            /\ IsEmpty(queue'[p])
            /\ ~playing'[p] /\ ~paused'[p]
            /\ started_at'[p] = None /\ paused_at'[p] = None
            /\ p \notin persisted'
            /\ Len(Emitted(p, {"stop"}))' = 1
        /\ GetPlayer(p) => FreshPlayer(p)']_vars

\* the step in which guild p's playback attempt, suspended in ffmpeg_token,
\* gets its permit
PermitGranted(p) == driver[p].pc = "token_wait" /\ driver'[p].permit

\* C17 (as claimed): a playback attempt that is waiting for a permit when its
\* player is stopped gives the wait up: a permit is granted only to the attempt
\* of a player that is in the manager's table
C17_StoppedNeverAcquires ==
    [][\A p \in Guilds : PermitGranted(p) => p \in players]_vars

\* the step in which the idle loop emits idle for guild p and begins its stop()
IdleReaps(p) == Emitted(p, {"idle"})' # <<>>

\* C15 (as claimed): the idle loop stops a player only if, when stop() begins,
\* the player has no current track, is not paused, has an empty queue and was
\* last active longer ago than idle_timeout
C15_ReapsOnlyIdle ==
    [][\A p \in Guilds :
        IdleReaps(p) =>
            /\ current[p] = None
            /\ ~paused[p]
            /\ IsEmpty(queue[p])
            /\ clock - last_active[p] > idle_timeout]_vars

\* guild p's player is connected, has an empty queue, is not playing and was
\* last active longer ago than idle_timeout
ConnectedAndSilent(p) ==
    /\ p \in players
    /\ vc[p] # "none"
    /\ IsEmpty(queue[p])
    /\ ~playing[p]
    /\ clock - last_active[p] > idle_timeout

\* every idle emission begins a stop() by the idle loop and is the only one
\* for it, and that stop() emits stop once, later
OneIdleBeforeStop ==
    [][\A p \in Guilds :
        /\ IdleReaps(p) =>
            /\ stopper[p].pc = "none"
            /\ stopper'[p].pc # "none" /\ stopper'[p].by = "idle"
            /\ Emitted(p, {"idle", "stop"})' = <<Event("idle", p, None, FALSE)>>
        /\ StopReturns(p) =>
            /\ stopper[p].by = "idle"
            /\ Emitted(p, {"idle", "stop"})' = <<Event("stop", p, None, FALSE)>>]_vars

ShutdownNext ==
    \/ \E p \in Guilds, t \in Tracks : Add(p, t)
    \/ \E p \in Guilds : Connect(p)
    \/ \E p \in Guilds : WakeWaiter(p)
    \/ \E p \in Guilds : ProcessQueue(p)
    \/ \E p \in Guilds : StartSession(p)
    \/ \E p \in Guilds : Play(p)
    \/ \E p \in Guilds : LoopExit(p)
    \/ \E p \in Guilds, exc \in BOOLEAN : TrackEnds(p, exc)
    \/ \E p \in Guilds : FinishTrack(p)
    \/ \E p \in Guilds : Preload(p)
    \/ \E p \in Guilds : PreloadInToken(p)
    \/ \E p \in Guilds : Autosave(p)
    \/ \E p \in Guilds : AutosaveFails(p)
    \/ \E task \in {"autosave", "idle"} : LoopEnds(task)
    \/ ShutdownCall
    \/ \E p \in Guilds, fails \in BOOLEAN : ShutdownSave(p, fails)
    \/ \E p \in Guilds : ShutdownStop(p)
    \/ ShutdownEnd
    \/ \E p \in Guilds : StopFade(p)
    \/ \E p \in Guilds : StopDisconnected(p)
    \/ \E p \in Guilds : StopFinish(p)
    \/ \E p \in Guilds : GetPlayer(p)

ShutdownSpec == SoloInit /\ [][ShutdownNext]_vars

\* C22: a shutdown() of a manager that was started does not end with an
\* exception, and when it returns the two loops are over, every player is
\* stopped and the table of players is empty
C22_ShutdownCompletes ==
    [][mgr.db =>
        /\ mgr'.shutdown # "raised"
        /\ mgr.shutdown = "stop" /\ mgr'.shutdown = "done" =>
            /\ players' = {}
            /\ mgr'.autosave # "sleeping" /\ mgr'.idle # "sleeping"
            /\ \A p \in world.guilds : vc'[p] = "none" /\ ~playing'[p] /\ current'[p] = None]_vars

\* C23: once shutdown() is over, nothing, and no add() in particular, sets
\* running again or starts the loops again
C23_StaysShutDown ==
    [][mgr.shutdown \in {"done", "raised"} =>
        /\ ~running'
        /\ mgr'.autosave # "sleeping" => mgr.autosave # "sleeping"
        /\ mgr'.idle # "sleeping" => mgr.idle # "sleeping"]_vars

\* a save of guild p has just failed in the database
SaveFailed(p) == emitted' = <<Event("error", p, None, TRUE)>>

\* C24: a save that fails changes nothing of the players' playback; in the
\* autosave loop it leaves the loop as it was; in shutdown() the other players
\* are still to be saved and shutdown() does not end with an exception
C24_SaveFailureSwallowed ==
    [][/\ \A p \in Guilds : SaveFailed(p) =>
            /\ UNCHANGED <<queue, current, playing, paused, vc, started_at, paused_at>>
            /\ mgr.shutdown # "save" => mgr' = mgr
            /\ mgr.shutdown = "save" /\ mgr.todo # {p} =>
                    mgr'.shutdown = "save" /\ mgr'.todo = mgr.todo \ {p}
       /\ mgr'.failed => mgr'.shutdown # "raised"]_vars


\* C31: the preload attempt that follows a track's start ends with the player
\* holding a preloaded session for the track it found at the head of the
\* queue, which is the session process_queue takes when it dequeues that track.
C31_PreloadHoldsHead ==
    [][\A p \in Guilds :
        (pre[p].pc = "token" /\ pre'[p].pc = "none")
            => preloaded'[p] = Head(pre[p].peek)]_vars

\* C38: a process_queue that returns without having started a track has taken
\* no track out of the queue; so without a voice connection the queue is as
\* it was.
C38_NoTrackLost ==
    [][\A p \in Guilds :
        (driver[p].pc = "pq_body" /\ driver'[p].pc = "none" /\ current'[p] = None)
            => queue'[p].items = queue[p].items]_vars


\* C35: with loop mode single or queue a track that ends without an error is
\* put back once per play: get() has done it for single, so _finish_track adds
\* nothing, and _finish_track does it for queue; the put never raises.  (For
\* queue the track's own place is free unless something else was inserted.)
C35_RequeuedOncePerPlay ==
    [][\A p \in Guilds :
        (/\ ft[p] = "ok" /\ ft'[p] = "none" /\ current[p] # None
         /\ queue[p].loop_mode \in {"single", "queue"}
         /\ queue[p].loop_mode = "queue" => Size(queue[p]) < queue[p].max_size)
            => /\ \A o \in Requeue(queue[p], current[p], FALSE) : ~o.err
               /\ Size(queue'[p]) =
                    Size(queue[p]) + (IF queue[p].loop_mode = "single" THEN 0 ELSE 1)]_vars


\* C36: track_start and track_end alternate for a guild: every track_end
\* carries a track, that track is the player's current one, and its
\* track_start has been emitted (the playback attempt is past the emission and
\* has not ended), on errors and on stop as well.
C36_TrackEndClosesItsStart ==
    [][\A p \in Guilds :
        \A i \in 1..Len(Emitted(p, {"track_end"})') :
            /\ Emitted(p, {"track_end"})'[i].track # None
            /\ Emitted(p, {"track_end"})'[i].track = current[p]
            /\ driver[p].pc \in {"play", "loop"}]_vars


\* C37: a player that is playing or holds a transcoder permit is in the
\* manager's table, whatever add() calls run at the suspension points of a
\* stop() on it.
C37_ActivePlayersRegistered ==
    \A p \in Guilds : (playing[p] \/ driver[p].permit) => p \in players


\* one guild's player: its caller adds, pauses, resumes and stops it and gets
\* a new player, and time goes on
AnchorNext ==
    \/ PauseNext
    \/ \E p \in Guilds : StopCall(p)
    \/ \E p \in Guilds : StopFade(p)
    \/ \E p \in Guilds : StopDisconnected(p)
    \/ \E p \in Guilds : StopFinish(p)
    \/ \E p \in Guilds : GetPlayer(p)

AnchorSpec == SoloInit /\ [][AnchorNext]_vars

\* C40: started_at is set exactly while playing is true, paused_at exactly
\* while the player is paused, and a paused player is playing.
C40_AnchorsFollowState ==
    \A p \in Guilds :
        /\ started_at[p] # None <=> playing[p]
        /\ paused_at[p] # None <=> paused[p]
        /\ paused[p] => playing[p]

\* ------------------------------------------------------ AudioQueue: claims

\* C6: with loop mode none and shuffle off, under put/get alone, get returns
\* the tracks in the order they were put: what was returned so far, followed by
\* what is still queued, is exactly what was put.  get returns none only on an
\* empty queue, and a put fails exactly when the queue already holds max_size.
C6_Fifo ==
    fifoOnly =>
        /\ getLog \o q.items = putLog
        /\ Size(q) <= q.max_size
        /\ (ret.op = "get" /\ ret.val = None => q.items = <<>>)
        /\ (ret.op = "get" /\ ret.val # None => Last(getLog) = ret.val)
        /\ (ret.op = "put" /\ ret.err => Size(q) = q.max_size)
        /\ (ret.op = "put" /\ ~ret.err => q.items # <<>> /\ Last(q.items) = Last(putLog))

\* two different tracks were put and returned in order, and a further get on
\* the empty queue returned none
C6_Witness ==
    /\ fifoOnly
    /\ Len(getLog) = 2 /\ getLog[1] # getLog[2]
    /\ getLog = putLog
    /\ ret.op = "get" /\ ret.val = None

\* C7: the queue never holds more than max_size tracks
C7_SizeBound == Size(q) <= q.max_size

\* an insertion at the front was refused on a full queue
C7_Witness == ret.op = "add_to_front" /\ ret.err /\ Size(q) = q.max_size

\* C8 (as claimed): with loop mode single and shuffle off, a get that follows
\* a get returns the same track
C8_SingleRepeats ==
    [][(/\ q.loop_mode = "single" /\ ~q.shuffle
        /\ ret.op = "get" /\ ret.val # None
        /\ ret'.op = "get")
       => ret'.val = ret.val]_vars

\* C9 (as claimed): with loop mode queue and shuffle off, get returns the head
\* and re-inserts it at the tail
C9_QueueLoopRotates ==
    [][(/\ q.loop_mode = "queue" /\ ~q.shuffle
        /\ q.items # <<>>
        /\ ret'.op = "get")
       => /\ ret'.val = Head(q.items)
          /\ q'.items = Append(Tail(q.items), Head(q.items))]_vars

\* the tracks of the current pass over the permutation: those the cursor has
\* passed (the last shuffle_position entries of the history) and those queued
PassTracks(qq) ==
    SubSeq(qq.history, Len(qq.history) - qq.shuffle_position + 1, Len(qq.history))
        \o qq.items

\* a queue inside a pass that began with k distinct tracks and a permutation
\* made for them, and has seen only successful gets since
InPass(qq) ==
    /\ qq.shuffle /\ qq.loop_mode = "none"
    /\ qq.shuffle_position <= Len(qq.history)
    /\ Len(qq.shuffle_indices) = Size(qq) + qq.shuffle_position
    /\ \A i, j \in 1..Len(PassTracks(qq)) : i # j => PassTracks(qq)[i] # PassTracks(qq)[j]
    /\ (qq.shuffle_position > 0 => ret.op = "get")

\* C10 (as claimed): during a pass every get on the non-empty queue returns one
\* of the queued tracks and removes it, so k gets return each of k tracks once
C10_ShufflePass ==
    [][(InPass(q) /\ q.items # <<>> /\ ret'.op = "get")
       => /\ ret'.val # None
          /\ Size(q') = Size(q) - 1]_vars

\* what a fresh queue is left as by import_state(export_state(qq))
RoundTrip(qq) == ImportState(NewQueue(qq.max_size), ExportState(qq))

\* C11 (as claimed): importing the exported state of the queue into a fresh
\* queue reproduces its tracks, history, shuffle flag, loop mode, permutation,
\* cursor and counters
C11_RoundTrip ==
    /\ RoundTrip(q).items = q.items
    /\ RoundTrip(q).history = q.history
    /\ RoundTrip(q).shuffle = q.shuffle
    /\ RoundTrip(q).loop_mode = q.loop_mode
    /\ RoundTrip(q).shuffle_indices = q.shuffle_indices
    /\ RoundTrip(q).shuffle_position = q.shuffle_position
    /\ RoundTrip(q).total_added = q.total_added
    /\ RoundTrip(q).total_played = q.total_played

\* C30: a queue operation that raises QueueError leaves the tracks, the
\* history, the shuffle permutation and cursor and the counters as they were;
\* so a put_many that raises has added none of its tracks
C30_FailedCallChangesNothing == [][ret'.err => q' = q]_vars

\* a call has just raised on a shuffled queue that has tracks and room left:
\* a put_many of more tracks than fit, or a call with an index out of range
C30_Witness ==
    /\ ret.err
    /\ 0 < Size(q) /\ Size(q) < q.max_size
    /\ q.shuffle /\ Len(q.shuffle_indices) = Size(q)
    /\ q.total_added > 0

\* ----------------------------------------------------- AudioManager: bitrate
\* A manager of any pool size, the streams that start and end inside its permits,
\* and the calls of adapt_bitrate.
MaxProcs == 8

\* _play_current, inside ffmpeg_token: one more active stream
StreamStarts ==
    /\ pool.metrics
    /\ pool.streams_active < pool.max_ffmpeg_procs
    /\ pool' = [pool EXCEPT !.streams_active = @ + 1, !.adapted = FALSE]
    /\ UNCHANGED <<qvars, pvars, cvars, mgr, cache, fx, bus, fade>>

\* _play_current's finally: one active stream less
StreamEnds ==
    /\ pool.metrics
    /\ pool.streams_active > 0
    /\ pool' = [pool EXCEPT !.streams_active = Max(0, @ - 1), !.adapted = FALSE]
    /\ UNCHANGED <<qvars, pvars, cvars, mgr, cache, fx, bus, fade>>

\* a call of adapt_bitrate
AdaptBitrateCall ==
    /\ pool' = [pool EXCEPT
                    !.bitrate = Adapted(pool.max_ffmpeg_procs, pool.metrics,
                                        pool.streams_active),
                    !.adapted = TRUE]
    /\ UNCHANGED <<qvars, pvars, cvars, mgr, cache, fx, bus, fade>>

BitrateInit ==
    /\ QueueFresh /\ PlayersInit({}, {}, {"none"}, {FALSE}) /\ ControlInit(FALSE)
    /\ pool \in {NewPool(n, m) : n \in 1..MaxProcs, m \in BOOLEAN}
    /\ cache = NewCache
    /\ fx = NewFx(<<"Equalizer", "Nightcore", "Audio8D">>)
    /\ bus = NewBus
    /\ fade = NoFade

BitrateNext == StreamStarts \/ StreamEnds \/ AdaptBitrateCall

BitrateSpec == BitrateInit /\ [][BitrateNext]_vars

\* C25: after a call of adapt_bitrate the bitrate is 128000 if twice the number
\* of active streams exceeds the pool size, and 256000 otherwise
C25_BitrateFollowsLoad ==
    pool.metrics /\ pool.adapted =>
        pool.bitrate = IF 2 * pool.streams_active > pool.max_ffmpeg_procs
                       THEN BitrateLow ELSE BitrateHigh

\* ------------------------------------------------- AudioManager: track cache
\* The calls of cache_track on one manager; a track is cached under its key
\* (its webpage_url, else its audio_url, else its title), and tracks are taken
\* here as their keys.
cache_size == 3
MaxKeys == 4

Elems(s) == {s[i] : i \in DOMAIN s}

\* the trimming loop of cache_track: pop the front of _cache_order while it is
\* longer than cache_size
Trimmed(order) ==
    IF Len(order) > cache_size
    THEN SubSeq(order, Len(order) - cache_size + 1, Len(order))
    ELSE order

\* cache_track: a cached key is a hit and nothing else happens; a new key is
\* appended to _cache_order, which is then trimmed
CacheTrack(k) ==
    /\ LET order == IF k \in Elems(cache.order)
                     THEN cache.order
                     ELSE Trimmed(Append(cache.order, k))
       IN  cache' = [order |-> order,
                     used |-> SelectSeq(Append(SelectSeq(cache.used, LAMBDA x : x # k), k),
                                        LAMBDA x : x \in Elems(order))]
    /\ UNCHANGED <<qvars, pvars, cvars, mgr, pool, fx, bus, fade>>

CacheInit ==
    /\ QueueFresh /\ PlayersInit({}, {}, {"none"}, {FALSE}) /\ ControlInit(FALSE)
    /\ UnitsInit

CacheNext == \E k \in 1..MaxKeys : CacheTrack(k)

CacheSpec == CacheInit /\ [][CacheNext]_vars

\* C26: the cache never holds more than cache_size keys, and a key that leaves
\* the cache is the least recently used one, where a hit is a use
C26_EvictsLeastRecentlyUsed ==
    [][/\ Len(cache'.order) <= cache_size
       /\ \A k \in Elems(cache.order) \ Elems(cache'.order) : k = Head(cache.used)]_vars

\* ------------------------------------------------------------- FilterChain
\* One FilterChain and three filter objects, which are added to it, removed
\* from it and changed while in it or out of it.

\* validate_params of Equalizer, Nightcore and Audio8D: no FilterError
Valid(f) ==
    CASE f.kind = "Equalizer" -> -2000 <= f.params.gain /\ f.params.gain <= 2000
      [] f.kind = "Nightcore" -> /\ 50 <= f.params.pitch /\ f.params.pitch <= 200
                                 /\ 50 <= f.params.tempo /\ f.params.tempo <= 200
      [] f.kind = "Audio8D" -> /\ 10 <= f.params.strength /\ f.params.strength <= 100
                               /\ 50 <= f.params.speed /\ f.params.speed <= 500
                               /\ 10 <= f.params.radius /\ f.params.radius <= 100
                               /\ 0 <= f.params.reverb_amount
                               /\ f.params.reverb_amount <= 100

\* get_ffmpeg_args returns an "af" fragment: an equalizer has a band whose gain
\* is above 0.01 in size, a nightcore a pitch or tempo further than 0.01 from 1.0
HasFragment(f) ==
    CASE f.kind = "Equalizer" -> f.params.gain > 1 \/ f.params.gain < -1
      [] f.kind = "Nightcore" -> \/ f.params.tempo > 101 \/ f.params.tempo < 99
                                 \/ f.params.pitch > 101 \/ f.params.pitch < 99
      [] f.kind = "Audio8D" -> TRUE

\* list.sort(key=priority) of a list of filter objects: stable, the first of
\* the filters of the lowest priority comes first
RECURSIVE SortFilters(_, _)
SortFilters(heap, fs) ==
    IF fs = <<>> THEN <<>>
    ELSE LET i == CHOOSE i \in DOMAIN fs :
                    /\ \A j \in DOMAIN fs : heap[fs[i]].priority <= heap[fs[j]].priority
                    /\ \A j \in 1..(i - 1) : heap[fs[j]].priority > heap[fs[i]].priority
         IN  <<fs[i]>> \o SortFilters(heap, RemoveIndex(fs, i))

\* a remove_filter that finds nothing
RemovesNothing(heap, fs, name) == fs

\* remove_filter: the list without the first filter of that name
RemoveByName(heap, fs, name) ==
    IF \E i \in DOMAIN fs : heap[fs[i]].name = name
    THEN RemoveIndex(fs, CHOOSE i \in DOMAIN fs :
                            /\ heap[fs[i]].name = name
                            /\ \A j \in 1..(i - 1) : heap[fs[j]].name # name)
    ELSE fs

\* get_filter: the first filter of that name in the chain, or None
GetFilter(name) ==
    IF \E i \in DOMAIN fx.filters : fx.heap[fx.filters[i]].name = name
    THEN fx.filters[CHOOSE i \in DOMAIN fx.filters :
                        /\ fx.heap[fx.filters[i]].name = name
                        /\ \A j \in 1..(i - 1) : fx.heap[fx.filters[j]].name # name]
    ELSE None

\* the filters whose fragments get_combined_args joins, in the order in which
\* it joins them: the enabled filters of _filters that return a fragment
Combined == SelectSeq(fx.filters, LAMBDA f : fx.heap[f].enabled /\ HasFragment(fx.heap[f]))

\* get_combined_args: the fragments, each written from its filter's parameters
GetCombinedArgs == [i \in DOMAIN Combined |-> [af |-> fx.heap[Combined[i]].kind,
                                                of |-> fx.heap[Combined[i]].params]]

FxReturn(op, arg, val, err) == [op |-> op, arg |-> arg, val |-> val, err |-> err]

\* FilterChain.add_filter(f): validate, remove the filter of f's name, append f,
\* sort
AddFilter(f) ==
    /\ fx' = IF Valid(fx.heap[f])
             THEN [fx EXCEPT
                     !.filters = SortFilters(fx.heap,
                                    Append(RemoveByName(fx.heap, fx.filters, fx.heap[f].name), f)),
                     !.ret = FxReturn("add_filter", f, <<>>, FALSE)]
             ELSE [fx EXCEPT !.ret = FxReturn("add_filter", f, <<>>, TRUE)]
    /\ UNCHANGED <<qvars, pvars, cvars, mgr, pool, cache, bus, fade>>

\* FilterChain.remove_filter(name)
RemoveFilter(name) ==
    /\ fx' = [fx EXCEPT !.filters = RemoveByName(fx.heap, fx.filters, name),
                        !.ret = FxReturn("remove_filter", name, <<>>, FALSE)]
    /\ UNCHANGED <<qvars, pvars, cvars, mgr, pool, cache, bus, fade>>

\* FilterChain.clear_filters
ClearFilters ==
    /\ fx' = [fx EXCEPT !.filters = <<>>, !.ret = FxReturn("clear_filters", None, <<>>, FALSE)]
    /\ UNCHANGED <<qvars, pvars, cvars, mgr, pool, cache, bus, fade>>

\* BaseFilter.priority's setter
SetPriority(f, value) ==
    /\ fx' = [fx EXCEPT !.heap[f].priority = value,
                        !.ret = FxReturn("priority", f, <<>>, FALSE)]
    /\ UNCHANGED <<qvars, pvars, cvars, mgr, pool, cache, bus, fade>>

\* BaseFilter.toggle (enable and disable are a toggle or nothing)
Toggle(f) ==
    /\ fx' = [fx EXCEPT !.heap[f].enabled = ~@, !.ret = FxReturn("toggle", f, <<>>, FALSE)]
    /\ UNCHANGED <<qvars, pvars, cvars, mgr, pool, cache, bus, fade>>

\* the arguments of the setters, valid and out of range: Equalizer.set_band(1000,
\* gain), Nightcore.set_pitch and set_tempo, Audio8D.set_strength and set_speed
SetterArgs(kind) ==
    CASE kind = "Equalizer" -> {<<"gain", 300>>, <<"gain", 2500>>}
      [] kind = "Nightcore" -> {<<"pitch", 150>>, <<"pitch", 300>>, <<"tempo", 40>>}
      [] kind = "Audio8D" -> {<<"strength", 50>>, <<"strength", 110>>, <<"speed", 510>>}

\* a setter of a filter: assign the parameter, then validate_params
SetParam(f, param, value) ==
    /\ <<param, value>> \in SetterArgs(fx.heap[f].kind)
    /\ LET heap == [fx.heap EXCEPT ![f].params[param] = value]
       IN  fx' = [fx EXCEPT !.heap = heap,
                            !.ret = FxReturn("set", f, <<>>, ~Valid(heap[f]))]
    /\ UNCHANGED <<qvars, pvars, cvars, mgr, pool, cache, bus, fade>>

\* a call of get_combined_args
GetCombinedArgsCall ==
    /\ fx' = [fx EXCEPT !.ret = FxReturn("get_combined_args", None, GetCombinedArgs, FALSE)]
    /\ UNCHANGED <<qvars, pvars, cvars, mgr, pool, cache, bus, fade>>

\* an equalizer and two nightcores of the same name, or one filter of each kind
FilterInit ==
    /\ QueueFresh /\ PlayersInit({}, {}, {"none"}, {FALSE}) /\ ControlInit(FALSE)
    /\ pool = NewPool(max_ffmpeg_procs, TRUE)
    /\ cache = NewCache
    /\ fx \in {NewFx(<<"Equalizer", "Nightcore", "Nightcore">>),
                NewFx(<<"Equalizer", "Nightcore", "Audio8D">>)}
    /\ bus = NewBus
    /\ fade = NoFade

\* the chain and the order of its filters
ChainNext ==
    \/ \E f \in Filters : AddFilter(f)
    \/ \E f \in Filters : RemoveFilter(fx.heap[f].name)
    \/ ClearFilters
    \/ \E f \in Filters, value \in {0, 15, 35} : SetPriority(f, value)
    \/ \E f \in Filters : Toggle(f)
    \/ GetCombinedArgsCall

ChainSpec == FilterInit /\ [][ChainNext]_vars

\* the chain and the parameters of its filters
ParamNext ==
    \/ \E f \in Filters : AddFilter(f)
    \/ \E f \in Filters : RemoveFilter(fx.heap[f].name)
    \/ \E f \in Filters,
          a \in SetterArgs("Equalizer") \cup SetterArgs("Nightcore") \cup SetterArgs("Audio8D") :
            SetParam(f, a[1], a[2])
    \/ GetCombinedArgsCall

ParamSpec == FilterInit /\ [][ParamNext]_vars

\* C27: the chain never holds two filters of one name, and when add_filter(f)
\* has returned, the chain's filter of f's name is f
C27_OneFilterPerName ==
    /\ \A i, j \in DOMAIN fx.filters :
            fx.heap[fx.filters[i]].name = fx.heap[fx.filters[j]].name => i = j
    /\ fx.ret.op = "add_filter" /\ ~fx.ret.err =>
            GetFilter(fx.heap[fx.ret.arg].name) = fx.ret.arg

\* add_filter has put the third filter in the place of the second, of the same
\* name, next to the equalizer
C27_Witness ==
    /\ fx.ret = FxReturn("add_filter", 3, <<>>, FALSE)
    /\ fx.heap[2].name = fx.heap[3].name
    /\ fx.filters = <<1, 3>>

\* C28: get_combined_args joins the fragments of the enabled filters in
\* ascending order of the priorities that the filters have when it is called
C28_CombinedInPriorityOrder ==
    fx.ret.op = "get_combined_args" =>
        \A i, j \in DOMAIN Combined :
            i < j => fx.heap[Combined[i]].priority <= fx.heap[Combined[j]].priority

\* C29: a setter or an add_filter that raises FilterError leaves the parameters
\* of every filter and the chain as they were
C29_FailedMutationChangesNothing ==
    [][fx'.ret.err => fx'.heap = fx.heap /\ fx'.filters = fx.filters]_vars

\* ------------------------------------------------------- AudioManager: hooks
\* The hook table of one manager and the calls of on, off and _emit. There are
\* three callbacks: one returns, one raises an Exception, and one unregisters
\* itself from the event it was called for (a listener for one occurrence) and
\* returns.
MaxHooks == 2

Callbacks == {"returns", "raises", "once"}

\* list.remove: the list without the first occurrence of the callback
RemoveFirst(cbs, cb) ==
    IF \E i \in DOMAIN cbs : cbs[i] = cb
    THEN RemoveIndex(cbs, CHOOSE i \in DOMAIN cbs :
                             cbs[i] = cb /\ \A j \in 1..(i - 1) : cbs[j] # cb)
    ELSE cbs

\* the loop of _emit over the list of the event, from the iterator's position
\* i: the list as the callbacks leave it, and the calls made; an Exception of a
\* callback is caught and logged, and the loop goes on
RECURSIVE EmitLoop(_, _, _, _)
EmitLoop(cbs, i, args, calls) ==
    IF i >= Len(cbs) THEN [hooks |-> cbs, calls |-> calls]
    ELSE LET cb == cbs[i + 1]
         IN  EmitLoop(IF cb = "once" THEN RemoveFirst(cbs, cb) ELSE cbs,
                      i + 1, args, Append(calls, <<cb>> \o args))

\* AudioManager.on: append the callback; an unknown event raises ValueError
On(event, cb) ==
    /\ event \in Events => Len(bus.hooks[event]) < MaxHooks
    /\ bus' = IF event \in Events
              THEN [hooks |-> [bus.hooks EXCEPT ![event] = Append(@, cb)],
                    last |-> [NoCall EXCEPT !.op = "on", !.event = event]]
              ELSE [bus EXCEPT !.last = [NoCall EXCEPT !.op = "on", !.event = event,
                                                       !.raised = TRUE]]
    /\ UNCHANGED <<qvars, pvars, cvars, mgr, pool, cache, fx, fade>>

\* AudioManager.off: remove the callback's first registration, if there is one
Off(event, cb) ==
    /\ bus' = [hooks |-> IF event \in Events
                         THEN [bus.hooks EXCEPT ![event] = RemoveFirst(@, cb)]
                         ELSE bus.hooks,
               last |-> [NoCall EXCEPT !.op = "off", !.event = event]]
    /\ UNCHANGED <<qvars, pvars, cvars, mgr, pool, cache, fx, fade>>

\* AudioManager._emit(event, guild_id, payload)
EmitCall(event, guild_id, payload) ==
    /\ LET found == IF event \in Events THEN bus.hooks[event] ELSE <<>>
           done == EmitLoop(found, 0, <<guild_id, payload>>, <<>>)
       IN  bus' = [hooks |-> IF event \in Events
                             THEN [bus.hooks EXCEPT ![event] = done.hooks]
                             ELSE bus.hooks,
                   last |-> [op |-> "emit", event |-> event, found |-> found,
                             calls |-> done.calls, raised |-> FALSE]]
    /\ UNCHANGED <<qvars, pvars, cvars, mgr, pool, cache, fx, fade>>

BusInit ==
    /\ QueueFresh /\ PlayersInit({}, {}, {"none"}, {FALSE}) /\ ControlInit(FALSE)
    /\ UnitsInit

BusNext ==
    \/ \E e \in Events \cup {"unknown"}, cb \in Callbacks : On(e, cb)
    \/ \E e \in Events \cup {"unknown"}, cb \in Callbacks : Off(e, cb)
    \/ \E e \in Events \cup {"unknown"}, g \in Guilds : EmitCall(e, g, "payload")

BusSpec == BusInit /\ [][BusNext]_vars

\* C21: _emit calls every callback that is registered for the event, in the
\* order of registration, with the guild id and the payload, whether or not a
\* callback raises, and raises nothing itself
C21_EveryCallbackInvoked ==
    bus.last.op = "emit" =>
        /\ ~bus.last.raised
        /\ Len(bus.last.calls) = Len(bus.last.found)
        /\ \A i \in DOMAIN bus.last.found :
                /\ bus.last.calls[i][1] = bus.last.found[i]
                /\ bus.last.calls[i][2] \in Guilds
                /\ bus.last.calls[i][3] = "payload"


\* ------------------------------------------------------- AudioQueue: peek
\* peek(count) under the queue's lock: it reads the deque, the permutation and
\* the cursor and assigns nothing
QPeek(count) ==
    /\ UNCHANGED <<pvars, cvars, uvars, mgr>>
    /\ ~q.locked
    /\ q' = q
    /\ ret' = [op |-> "peek", val |-> Peek(q, count), err |-> FALSE, count |-> count]
    /\ LeaveFifo

PeekNext ==
    \/ QueueNext
    \/ \E n \in 0..max_size : QPeek(n)

PeekSpec == QueueInit /\ [][PeekNext]_vars

\* what n successive get() calls on qq can return, None included
RECURSIVE Upcoming(_, _)
Upcoming(qq, n) ==
    IF n = 0
    THEN {<<>>}
    ELSE UNION {{<<o.val>> \o rest : rest \in Upcoming(o.q, n - 1)} : o \in Get(qq)}

\* C33: peek(n) leaves the queue as it was and, under loop mode none, returns
\* the min(n, size) tracks that the next get() calls return, in their order,
\* with shuffle off and with shuffle on.
C33_PeekShowsUpcoming ==
    [][(ret'.op = "peek" /\ q.loop_mode = "none")
       => /\ q' = q
          /\ Len(ret'.val) = (IF ret'.count < Size(q) THEN ret'.count ELSE Size(q))
          /\ ret'.val \in Upcoming(q, Len(ret'.val))]_vars


\* -------------------------------------------------- AudioQueue: remove_at
\* a queue constructed with room for three tracks
RoomForThree == 3

RemoveInit ==
    /\ q = NewQueue(RoomForThree)
    /\ ret = OtherResult(FALSE)
    /\ putLog = <<>>
    /\ getLog = <<>>
    /\ fifoOnly = TRUE
    /\ PlayersInit({}, {}, {"none"}, {FALSE})
    /\ ControlInit(FALSE)
    /\ UnitsInit

RemoveSpec == RemoveInit /\ [][QueueNext]_vars

\* C39: remove_at(i) returns the element at position i and leaves the others
\* in their order, also when tracks of the queue are equal; a shuffled get()
\* removes the element at the index that the permutation selects.
C39_RemovesThatPosition ==
    /\ \A i \in IndexArgs : \A o \in RemoveAt(q, i) :
            ~o.err =>
                LET n == NormIndex(i, Size(q)) + 1
                IN  /\ o.val = q.items[n]
                    /\ o.q.items = RemoveIndex(q.items, n)
    /\ (/\ q.shuffle
        /\ q.shuffle_position < Len(q.shuffle_indices)
        /\ q.shuffle_indices[q.shuffle_position + 1] < Size(q))
       => ShuffledPick(q).q.items =
            RemoveIndex(q.items, q.shuffle_indices[q.shuffle_position + 1] + 1)


\* C34: import_state returns with the queue's lock released, so that the
\* calls that follow it on the same queue (deserialize_state's add_to_front of
\* the saved current track among them) are not blocked: between two calls the
\* lock is free.
C34_ImportReleasesLock == ~q.locked


\* ------------------------------------------------------ GuildPlayer: _fade_out
\* Durations and volumes are in hundredths (of a second, of full volume), so
\* int(duration * 10) is duration \div 10.  The transformer's volume is kept
\* as the numerator of a fraction over `steps`: the code assigns
\* original_volume * (1.0 - i / steps), which is original * (steps - i) / steps.
MaxDuration == 220

Volumes == {50, 100}

\* steps = min(20, max(3, int(duration * 10)))
Steps(duration) ==
    LET n == duration \div 10
        atLeast3 == IF n < 3 THEN 3 ELSE n
    IN  IF atLeast3 > 20 THEN 20 ELSE atLeast3

\* a loop over range(steps): it ends before the volume is set to 0
FadeLoopEndsEarly(f) ==
    IF f.i >= f.steps \/ ~f.playing
    THEN [f EXCEPT !.pc = "done"]
    ELSE [f EXCEPT !.volume = f.original * (f.steps - f.i), !.pc = "sleep"]

\* the for loop from the test of its range to the sleep of iteration f.i
FadeLoop(f) ==
    IF f.i > f.steps \/ ~f.playing
    THEN [f EXCEPT !.pc = "done"]
    ELSE [f EXCEPT !.volume = f.original * (f.steps - f.i), !.pc = "sleep"]

\* skip() or stop() awaits _fade_out(transformer, duration); the call runs up
\* to its first sleep (one call is followed)
FadeOutCall(duration, volume, isPlaying) ==
    /\ fade.pc = "none"
    /\ fade' = IF duration <= 0
               THEN [NoFade EXCEPT !.pc = "done", !.duration = duration,
                                   !.original = volume, !.steps = 1,
                                   !.volume = volume, !.playing = isPlaying]
               ELSE FadeLoop([pc |-> "none", duration |-> duration,
                              original |-> volume, steps |-> Steps(duration),
                              i |-> 0, volume |-> volume * Steps(duration),
                              sleeps |-> 0, playing |-> isPlaying])
    /\ UNCHANGED <<qvars, pvars, cvars, mgr, pool, cache, fx, bus>>

\* asyncio.sleep(duration / steps) is over: the next iteration
FadeWakes ==
    /\ fade.pc = "sleep"
    /\ fade' = FadeLoop([fade EXCEPT !.sleeps = @ + 1, !.i = @ + 1])
    /\ UNCHANGED <<qvars, pvars, cvars, mgr, pool, cache, fx, bus>>

\* while the fade sleeps another coroutine (stop(), _finish_track) sets
\* playing to False
PlayingEnds ==
    /\ fade.pc = "sleep" /\ fade.playing
    /\ fade' = [fade EXCEPT !.playing = FALSE]
    /\ UNCHANGED <<qvars, pvars, cvars, mgr, pool, cache, fx, bus>>

FadeInit ==
    /\ QueueFresh /\ PlayersInit({}, {}, {"none"}, {FALSE}) /\ ControlInit(FALSE)
    /\ UnitsInit

FadeNext ==
    \/ \E d \in 0..MaxDuration, v \in Volumes, b \in BOOLEAN : FadeOutCall(d, v, b)
    \/ FadeWakes
    \/ PlayingEnds

FadeSpec == FadeInit /\ [][FadeNext]_vars

====
